---- MODULE Spec2Model ----
(***************************************************************************)
(* Detection & Attribution Engine of polymarket-insider.                   *)
(*                                                                         *)
(* The persistent tables (alerts, positions, ...) are the state; every     *)
(* function of the source that reads or writes them is an operator on the  *)
(* table value, and every entry point is an action.                        *)
(*                                                                         *)
(* Representation of numbers: prices are integers in cents (0.15 is 15),   *)
(* USD amounts are integer dollars, timestamps are integer seconds, and a   *)
(* quotient x / d the code stores as REAL is kept as the pair <<x, d>>.     *)
(* The arithmetic is exact; floating-point rounding is not modelled.        *)
(***************************************************************************)
EXTENDS Integers, Sequences, FiniteSets, TLC

VARIABLES
    alerts,           \* table alerts: sequence of rows, alert_id = index
    positions,        \* table positions: sequence of rows, id = index
    trades,           \* table trades: set of rows, keyed by id
    wallets,          \* table wallets: set of rows, keyed by address
    wallet_funding,   \* table wallet_funding, keyed by (wallet, funding_source)
    wallet_trade_frequency,   \* table of that name, keyed by wallet
    filtered_alerts,  \* table filtered_alerts: sequence of rows
    last_timestamp,   \* table state, key 'last_timestamp' (0: no row)
    sent,             \* the notifications posted to the messaging endpoint
    narratives,       \* number of narrative sets save_narratives wrote
    batch,            \* run(): the normalized trades of the run, <<>> between runs
    cursor,           \* run(): index in batch of the trade the loop is at
    runs,             \* number of runs that fetched trades
    feed,             \* upstream: the trades published so far
    now,              \* time.time(), seconds
    resolvedMarkets,  \* upstream: the markets whose isResolved flag is set
    call              \* the last call of a function made from outside the
                      \* loop: its name, its arguments and its result

vars == <<alerts, positions, trades, wallets, wallet_funding,
          wallet_trade_frequency, filtered_alerts, last_timestamp, sent,
          narratives, batch, cursor, runs, feed, now, resolvedMarkets, call>>

\* A nullable value (SQL NULL, Python None) is None or Some(v).
None == <<>>
Some(v) == <<v>>
Val(o) == o[1]

----------------------------------------------------------------------------
(* Bounds of the model                                                     *)

MaxAlerts == 2        \* alerts handed to record_alert outside the loop
MaxTime == 1          \* clock steps taken by the model
MaxPositions == 3     \* positions recorded outside the loop
MaxRuns == 2          \* runs of the polling loop that fetch trades
MaxEdges == 4         \* rows of wallet_funding recorded outside the loop
MaxWords == 2         \* words of a market question classified outside the loop
MaxSignals == 5       \* signals of a list scored outside the loop
MaxNames == 2         \* signals of a list passed to record_alert outside the loop
MaxFetched == 2       \* trades a dry run fetches
MaxStored == 3        \* trades of w3 stored between checks of its frequency

FetchLimit == 100     \* fetch_trades(limit=100)

SecondsPerHour == 3600
SecondsPerDay == 86400

TimeStep == 30 * 60               \* seconds per clock step
StartTime == 10 * SecondsPerDay   \* the clock when the model starts

----------------------------------------------------------------------------
(* Python helpers                                                          *)

\* Python truthiness of a nullable number: None and 0 are falsy.
Truthy(o) == o # None /\ Val(o) # 0

\* a or b, for a nullable number a and a number b
Or(o, b) == IF Truthy(o) THEN Val(o) ELSE b

Abs(x) == IF x < 0 THEN -x ELSE x

Max(a, b) == IF a >= b THEN a ELSE b

\* sep.join(seq): the parts with the separator between neighbours.
RECURSIVE Join(_, _)
Join(sep, seq) ==
    IF Len(seq) = 0 THEN <<>>
    ELSE IF Len(seq) = 1 THEN <<seq[1]>>
    ELSE <<seq[1], sep>> \o Join(sep, Tail(seq))

----------------------------------------------------------------------------
(* Upstream market data (the subgraph's answer to MARKET_QUERY)            *)

Markets == {"m1", "m2"}

\* endDate of each market as the subgraph reports it (m2 reports none).
EndDate ==
    [m \in Markets |->
        IF m = "m1" THEN Some(StartTime + 2 * TimeStep) ELSE None]

\* outcomeTokenPrices a price poll may see, <<yes, no>> in cents.
ObservedPrices == {<<0, 0>>, <<44, 40>>, <<70, 30>>, <<76, 24>>}

\* What the subgraph may report once a market is resolved.
FinalReports ==
    {[outcomeTokenPrices |-> <<100, 0>>, resolution |-> "YES"],
     [outcomeTokenPrices |-> <<60, 40>>, resolution |-> "YES"],
     [outcomeTokenPrices |-> <<0, 100>>, resolution |-> "NO"],
     [outcomeTokenPrices |-> <<>>, resolution |-> "NO"]}

\* int(market.get("endDate", 0)) if market.get("endDate") else None
MarketTimestamp(m) == IF Truthy(EndDate[m]) THEN EndDate[m] ELSE None

\* get_market_prices: answer is None when the request fails or holds no
\* market, else Some(outcomeTokenPrices).
get_market_prices(m, answer) ==
    IF answer = None THEN None
    ELSE IF Len(Val(answer)) >= 2
         THEN Some([yes_price |-> Val(answer)[1], no_price |-> Val(answer)[2],
                    timestamp |-> MarketTimestamp(m)])
         ELSE None

\* check_market_resolution taking a market without endDate for unresolved.
check_market_resolution_dated(m, answer) ==
    IF answer = None \/ MarketTimestamp(m) = None THEN None
    ELSE LET report == Val(answer)
             outcome_prices == report.outcomeTokenPrices
             byPrice ==
                 IF outcome_prices[1] > 50
                 THEN [outcome |-> "YES", resolution_price |-> outcome_prices[1]]
                 ELSE IF outcome_prices[2] > 50
                 THEN [outcome |-> "NO", resolution_price |-> outcome_prices[2]]
                 ELSE [outcome |-> "UNKNOWN", resolution_price |-> 50]
             byText ==
                 [outcome |-> report.resolution,
                  resolution_price |-> IF report.resolution = "YES" THEN 100 ELSE 0]
             r == IF Len(outcome_prices) >= 2 THEN byPrice ELSE byText
         IN  Some([market |-> m, outcome |-> r.outcome,
                   resolution_price |-> r.resolution_price,
                   timestamp |-> MarketTimestamp(m)])

\* check_market_resolution: answer is None when the request fails, the
\* answer has errors or no market, or isResolved is false; else Some(report).
check_market_resolution(m, answer) ==
    IF answer = None THEN None
    ELSE LET report == Val(answer)
             outcome_prices == report.outcomeTokenPrices
             byPrice ==
                 IF outcome_prices[1] > 50
                 THEN [outcome |-> "YES", resolution_price |-> outcome_prices[1]]
                 ELSE IF outcome_prices[2] > 50
                 THEN [outcome |-> "NO", resolution_price |-> outcome_prices[2]]
                 ELSE [outcome |-> "UNKNOWN", resolution_price |-> 50]
             byText ==
                 [outcome |-> report.resolution,
                  resolution_price |-> IF report.resolution = "YES" THEN 100 ELSE 0]
             r == IF Len(outcome_prices) >= 2 THEN byPrice ELSE byText
         IN  Some([market |-> m, outcome |-> r.outcome,
                   resolution_price |-> r.resolution_price,
                   timestamp |-> MarketTimestamp(m)])

----------------------------------------------------------------------------
(* Attribution engine: post_event_review.py                                *)

SignalNames ==
    <<"FRESH_WALLET_BIG_BET", "SIZE_ANOMALY", "TIGHT_SENSITIVE_MARKET",
      "TEMPORAL_CLUSTERING", "SHARED_FUNDING_SOURCE", "EARLY_EXIT_PATTERN">>

\* |peak_price_change| above which an alert counts as correct, in cents.
PeakMoveThreshold == 15

\* Dollars of the notional bet.
NotionalBet == 100

\* Cents per unit of price.
PriceScale == 100

\* record_alert leaving the status to a column default of 'open', as the
\* positions table has.
record_alert_open(tbl, market, wallet, fired_timestamp, fired_price, signals) ==
    Append(tbl,
        [market |-> market, wallet |-> wallet,
         fired_timestamp |-> fired_timestamp, fired_price |-> fired_price,
         signals |-> Join("|", signals),
         peak_price |-> None, peak_timestamp |-> None,
         outcome |-> None, outcome_timestamp |-> None,
         hours_to_outcome |-> None, price_change |-> None,
         peak_price_change |-> None, profit_loss |-> None,
         is_correct |-> None, status |-> "open"])

\* INSERT INTO alerts (...) VALUES (..., 'pending'); the other columns NULL.
record_alert(tbl, market, wallet, fired_timestamp, fired_price, signals) ==
    Append(tbl,
        [market |-> market, wallet |-> wallet,
         fired_timestamp |-> fired_timestamp, fired_price |-> fired_price,
         signals |-> Join("|", signals),
         peak_price |-> None, peak_timestamp |-> None,
         outcome |-> None, outcome_timestamp |-> None,
         hours_to_outcome |-> None, price_change |-> None,
         peak_price_change |-> None, profit_loss |-> None,
         is_correct |-> None, status |-> "pending"])

\* update_peak_price with the WHERE clause keyed on nothing: every row.
update_peak_price_all(tbl, alert_id, peak_price, peak_timestamp) ==
    [i \in DOMAIN tbl |->
        [tbl[i] EXCEPT !.peak_price = Some(peak_price),
                       !.peak_timestamp = Some(peak_timestamp)]]

\* UPDATE alerts SET peak_price, peak_timestamp WHERE alert_id = ?
update_peak_price(tbl, alert_id, peak_price, peak_timestamp) ==
    IF alert_id \in DOMAIN tbl
    THEN [tbl EXCEPT ![alert_id].peak_price = Some(peak_price),
                     ![alert_id].peak_timestamp = Some(peak_timestamp)]
    ELSE tbl

\* resolution_metrics comparing the signed peak_price_change (no abs).
resolution_metrics_signed(row, outcome_timestamp, resolution_price) ==
    LET price_change == resolution_price - row.fired_price
        peak_price_change ==
            IF Truthy(row.peak_price)
            THEN Val(row.peak_price) - row.fired_price ELSE 0
        profit_loss ==
            ((resolution_price - row.fired_price) * NotionalBet) \div PriceScale
    IN  [hours_to_outcome |->
             <<outcome_timestamp - row.fired_timestamp, SecondsPerHour>>,
         price_change |-> price_change,
         peak_price_change |-> peak_price_change,
         profit_loss |-> profit_loss,
         is_correct |-> (profit_loss > 0
                         \/ peak_price_change > PeakMoveThreshold)]

\* The values resolve_alert computes from the row it selected.
resolution_metrics(row, outcome_timestamp, resolution_price) ==
    LET price_change == resolution_price - row.fired_price
        peak_price_change ==
            IF Truthy(row.peak_price)
            THEN Val(row.peak_price) - row.fired_price ELSE 0
        profit_loss ==
            ((resolution_price - row.fired_price) * NotionalBet) \div PriceScale
    IN  [hours_to_outcome |->
             <<outcome_timestamp - row.fired_timestamp, SecondsPerHour>>,
         price_change |-> price_change,
         peak_price_change |-> peak_price_change,
         profit_loss |-> profit_loss,
         is_correct |-> (profit_loss > 0
                         \/ Abs(peak_price_change) > PeakMoveThreshold)]

\* resolve_alert: no row for the id returns None and writes nothing; else
\* the row is updated whatever its status.
resolve_alert(tbl, alert_id, outcome, outcome_timestamp, resolution_price) ==
    IF alert_id \notin DOMAIN tbl THEN tbl
    ELSE LET m == resolution_metrics(tbl[alert_id], outcome_timestamp,
                                     resolution_price)
         IN  [tbl EXCEPT ![alert_id] =
                 [@ EXCEPT !.outcome = Some(outcome),
                           !.outcome_timestamp = Some(outcome_timestamp),
                           !.hours_to_outcome = Some(m.hours_to_outcome),
                           !.price_change = Some(m.price_change),
                           !.peak_price_change = Some(m.peak_price_change),
                           !.profit_loss = Some(m.profit_loss),
                           !.is_correct = Some(m.is_correct),
                           !.status = "resolved"]]

\* get_signal_performance with no WHERE clause: every row is grouped.
get_signal_performance_all(tbl) ==
    LET NotSep(part) == part # "|"
        keys == {tbl[a].signals : a \in DOMAIN tbl}
        group(key) == {a \in DOMAIN tbl : tbl[a].signals = key}
        correct(key) == Cardinality({a \in group(key) :
                                        tbl[a].is_correct = Some(TRUE)})
    IN  {[signals |-> IF key = <<>> THEN <<"">> ELSE SelectSeq(key, NotSep),
          count |-> Cardinality(group(key)),
          wins |-> correct(key),
          losses |-> Cardinality(group(key)) - correct(key)] : key \in keys}

\* get_signal_performance: SELECT signals, COUNT(*), SUM(is_correct = 1)
\* ... WHERE status = 'resolved' GROUP BY signals, a dictionary per row with
\* signals = signals_str.split("|").  The averages and scores of a row are
\* left out; the rows are a set, their keys being distinct.
get_signal_performance(tbl) ==
    LET NotSep(part) == part # "|"
        resolved == {a \in DOMAIN tbl : tbl[a].status = "resolved"}
        keys == {tbl[a].signals : a \in resolved}
        group(key) == {a \in resolved : tbl[a].signals = key}
        correct(key) == Cardinality({a \in group(key) :
                                        tbl[a].is_correct = Some(TRUE)})
    IN  {[signals |-> IF key = <<>> THEN <<"">> ELSE SelectSeq(key, NotSep),
          count |-> Cardinality(group(key)),
          wins |-> correct(key),
          losses |-> Cardinality(group(key)) - correct(key)] : key \in keys}

\* The ids of a set in the order ORDER BY fired_timestamp returns them
\* (rows with equal fired_timestamp in rowid order).
RECURSIVE OrderByFired(_, _)
OrderByFired(tbl, ids) ==
    IF ids = {} THEN <<>>
    ELSE LET first == CHOOSE i \in ids : \A j \in ids :
                          \/ tbl[i].fired_timestamp < tbl[j].fired_timestamp
                          \/ /\ tbl[i].fired_timestamp = tbl[j].fired_timestamp
                             /\ i <= j
         IN  <<first>> \o OrderByFired(tbl, ids \ {first})

\* SELECT alert_id, ... FROM alerts WHERE status = 'pending'
\* ORDER BY fired_timestamp
get_pending_alerts(tbl) ==
    OrderByFired(tbl, {i \in DOMAIN tbl : tbl[i].status = "pending"})


\* One iteration of the loop of update_peak_prices, for alert_id, with the
\* prices the poll of its market returned.
peak_step(tbl, alert_id, prices, t) ==
    IF prices = None THEN tbl
    ELSE LET peak_price == Max(Val(prices).yes_price, Val(prices).no_price)
             peak_timestamp == Or(Val(prices).timestamp, t)
             current_peak == tbl[alert_id].peak_price
         IN  IF ~Truthy(current_peak) \/ peak_price > Val(current_peak)
             THEN update_peak_price(tbl, alert_id, peak_price, peak_timestamp)
             ELSE tbl

\* The loop of update_peak_prices over the pending alerts.  (The table after
\* an iteration and the rest of the list are bound with \in {..}, so that
\* each is evaluated once.)
RECURSIVE peak_loop(_, _, _, _)
peak_loop(tbl, pending, polled, t) ==
    IF Len(pending) = 0 THEN tbl
    ELSE LET a == Head(pending)
         IN  CHOOSE result \in
                 {peak_loop(next, rest, polled, t) :
                      next \in {peak_step(tbl, a,
                                   get_market_prices(tbl[a].market, polled[a]),
                                   t)},
                      rest \in {Tail(pending)}} : TRUE

\* update_peak_prices: polled[a] is the answer to the poll made for alert a.
update_peak_prices(tbl, polled, t) ==
    CHOOSE result \in
        {peak_loop(tbl, pending, polled, t) :
             pending \in {get_pending_alerts(tbl)}} : TRUE

\* One iteration of the loop of review_pending_alerts, for alert_id, with
\* the answer its resolution check got.
resolve_step(tbl, alert_id, answer, t) ==
    LET resolution == check_market_resolution(tbl[alert_id].market, answer)
    IN  IF resolution = None THEN tbl
        ELSE resolve_alert(tbl, alert_id, Val(resolution).outcome,
                           Or(Val(resolution).timestamp, t),
                           Val(resolution).resolution_price)

RECURSIVE resolve_loop(_, _, _, _)
resolve_loop(tbl, pending, reports, t) ==
    IF Len(pending) = 0 THEN tbl
    ELSE LET a == Head(pending)
         IN  CHOOSE result \in
                 {resolve_loop(next, rest, reports, t) :
                      next \in {resolve_step(tbl, a, reports[a], t)},
                      rest \in {Tail(pending)}} : TRUE

\* review_pending_alerts: the peak update, then one resolution check for
\* every alert the list read after it holds.
review_pending_alerts(tbl, polled, reports, t) ==
    CHOOSE result \in
        {resolve_loop(tbl1, get_pending_alerts(tbl1), reports, t) :
             tbl1 \in {update_peak_prices(tbl, polled, t)}} : TRUE

----------------------------------------------------------------------------
(* Position tracker: exit_tracking.py                                      *)

\* record_position adding to an open position of the key when there is one.
record_position_merged(tbl, wallet, market, outcome, entry_price, entry_amount, timestamp) ==
    LET same == {i \in DOMAIN tbl :
                    /\ tbl[i].wallet = wallet /\ tbl[i].market = market
                    /\ tbl[i].outcome = outcome /\ tbl[i].status = "open"}
    IN  IF same = {}
        THEN Append(tbl,
                 [wallet |-> wallet, market |-> market, outcome |-> outcome,
                  entry_price |-> entry_price, entry_amount |-> entry_amount,
                  entry_timestamp |-> timestamp,
                  exit_price |-> None, exit_timestamp |-> None,
                  profit_loss |-> None, exit_delay_hours |-> None,
                  status |-> "open"])
        ELSE LET i == CHOOSE x \in same : TRUE
             IN  [tbl EXCEPT ![i].entry_amount = @ + entry_amount]

\* INSERT INTO positions (...) VALUES (..., 'open'); the exit columns NULL.
record_position(tbl, wallet, market, outcome, entry_price, entry_amount, timestamp) ==
    Append(tbl,
        [wallet |-> wallet, market |-> market, outcome |-> outcome,
         entry_price |-> entry_price, entry_amount |-> entry_amount,
         entry_timestamp |-> timestamp,
         exit_price |-> None, exit_timestamp |-> None,
         profit_loss |-> None, exit_delay_hours |-> None, status |-> "open"])

\* The SELECT of record_exit without its condition on status.
key_positions(tbl, wallet, market, outcome) ==
    {i \in DOMAIN tbl :
        /\ tbl[i].wallet = wallet /\ tbl[i].market = market
        /\ tbl[i].outcome = outcome}

\* SELECT id ... WHERE wallet = ? AND market = ? AND outcome = ?
\* AND status = 'open'
open_positions(tbl, wallet, market, outcome) ==
    {i \in DOMAIN tbl :
        /\ tbl[i].wallet = wallet /\ tbl[i].market = market
        /\ tbl[i].outcome = outcome /\ tbl[i].status = "open"}

\* The rows the SELECT with ORDER BY entry_timestamp DESC would return first.
newest_open_positions(tbl, wallet, market, outcome) ==
    LET ids == open_positions(tbl, wallet, market, outcome)
    IN  {i \in ids :
            \A j \in ids : tbl[i].entry_timestamp >= tbl[j].entry_timestamp}

\* The ids that can be positions[0] of the SELECT of record_exit, which is
\* ORDER BY entry_timestamp ASC: the order of rows with equal
\* entry_timestamp is left open by SQL.
oldest_open_positions(tbl, wallet, market, outcome) ==
    LET ids == open_positions(tbl, wallet, market, outcome)
    IN  {i \in ids :
            \A j \in ids : tbl[i].entry_timestamp <= tbl[j].entry_timestamp}

\* record_exit, pos_id being the id of positions[0], None when the SELECT
\* returned no row (the function then returns None and writes nothing).
\* profit_loss is in cents x dollars.
record_exit(tbl, wallet, market, outcome, exit_price, exit_timestamp, pos_id) ==
    IF pos_id = None THEN tbl
    ELSE LET row == tbl[Val(pos_id)]
         IN  [tbl EXCEPT ![Val(pos_id)] =
                 [@ EXCEPT !.exit_price = Some(exit_price),
                           !.exit_timestamp = Some(exit_timestamp),
                           !.profit_loss =
                               Some((exit_price - row.entry_price)
                                        * row.entry_amount),
                           !.exit_delay_hours =
                               Some(<<exit_timestamp - row.entry_timestamp,
                                      SecondsPerHour>>),
                           !.status = "closed"]]

\* The values pos_id can take in a call of record_exit for the key.
exit_matches(tbl, wallet, market, outcome) ==
    IF open_positions(tbl, wallet, market, outcome) = {} THEN {None}
    ELSE {Some(i) : i \in oldest_open_positions(tbl, wallet, market, outcome)}

----------------------------------------------------------------------------
(* Configuration: config.py, in the units of the model                     *)

FRESH_WALLET_DAYS == 7
LARGE_BET_USD == 5000
CLUSTER_WINDOW_MIN == 120
MIN_MARKET_LIQUIDITY == 10000
MAX_PRICE_JUMP_SINGLE_TRADE == 20
HIGH_FREQ_TRADER_THRESHOLD == 50

\* a or b for strings: the empty string is falsy.
StrOr(a, b) == IF a # "" THEN a ELSE b

\* sum(f(x) for x in seq), seq a sequence of numbers
RECURSIVE SumSeq(_)
SumSeq(seq) == IF Len(seq) = 0 THEN 0 ELSE Head(seq) + SumSeq(Tail(seq))

\* SUM(usd) over a set of rows of the trades table
RECURSIVE SumUsd(_)
SumUsd(rows) ==
    IF rows = {} THEN 0
    ELSE LET r == CHOOSE x \in rows : TRUE
         IN  r.usd + SumUsd(rows \ {r})

----------------------------------------------------------------------------
(* Market sensitivity: market_sensitivity.py                               *)
(* A text is the sequence of its words; a keyword is a sequence of words   *)
(* and matches where its words occur side by side.                         *)

CRITICAL_KEYWORDS ==
    << <<"coup">>, <<"coup", "d'etat">>, <<"military", "coup">>,
       <<"regime", "change">>, <<"overthrow">>,
       <<"war">>, <<"invasion">>, <<"conflict">>, <<"military", "action">>,
       <<"armed", "conflict">>,
       <<"assassination">>, <<"assassinate">>, <<"killed">>, <<"murdered">>,
       <<"revolution">>, <<"uprising">>, <<"rebellion">>, <<"insurgency">>,
       <<"nuclear">>, <<"nuclear", "war">>, <<"nuclear", "weapon">>,
       <<"civil", "war">>, <<"civil", "unrest">>, <<"civil", "conflict">> >>

HIGH_KEYWORDS ==
    << <<"election">>, <<"presidential", "election">>, <<"vote">>,
       <<"voting">>, <<"ballot">>,
       <<"resign">>, <<"resignation">>, <<"step", "down">>, <<"stepdown">>,
       <<"impeach">>, <<"impeachment">>, <<"removed", "from", "office">>,
       <<"prime", "minister">>, <<"president">>, <<"chancellor">>,
       <<"referendum">>, <<"plebiscite">> >>

MEDIUM_HIGH_KEYWORDS ==
    << <<"sanction">>, <<"sanctions">>, <<"embargo">>, <<"trade", "ban">>,
       <<"arrest">>, <<"arrested">>, <<"indictment">>, <<"indicted">>,
       <<"charges">>, <<"charged">>, <<"prosecution">>, <<"prosecute">>,
       <<"trial">>, <<"conviction">>, <<"sentenced">>,
       <<"freeze", "assets">>, <<"asset", "freeze">>, <<"seized">> >>

MEDIUM_KEYWORDS ==
    << <<"ai", "ban">>, <<"artificial", "intelligence", "ban">>,
       <<"chatgpt", "ban">>, <<"openai", "ban">>,
       <<"tech", "ban">>, <<"technology", "ban">>, <<"export", "ban">>,
       <<"export", "control">>,
       <<"semiconductor">>, <<"chip", "ban">>, <<"chip", "export">>,
       <<"regulation">>, <<"regulate">>, <<"regulatory">> >>

LOW_KEYWORDS ==
    << <<"celebrity">>, <<"actor">>, <<"actress">>, <<"singer">>,
       <<"musician">>,
       <<"award">>, <<"oscar">>, <<"grammy">>, <<"emmy">>,
       <<"divorce">>, <<"marriage">>, <<"engagement">>,
       <<"death">>, <<"died">>, <<"passes", "away">> >>

\* str.lower() on the words the model uses.
Lower(w) ==
    CASE w = "Will" -> "will"
      [] w = "X" -> "x"
      [] w = "Coup" -> "coup"
      [] w = "POLITICS" -> "politics"
      [] w = "WAR" -> "war"
      [] OTHER -> w

\* The words of a category string (a category is one word, or empty).
Words(s) == IF s = "" THEN <<>> ELSE <<s>>

\* re.search(r'\b' + re.escape(keyword) + r'\b', text)
KeywordIn(keyword, text) ==
    \E i \in 1..(Len(text) - Len(keyword) + 1) :
        SubSeq(text, i, i + Len(keyword) - 1) = keyword

\* The first keyword of the list found in the text, None when there is none.
first_match(keywords, text) ==
    LET hits == {k \in DOMAIN keywords : KeywordIn(keywords[k], text)}
    IN  IF hits = {} THEN None
        ELSE Some(keywords[CHOOSE k \in hits : \A j \in hits : k <= j])

\* get_market_sensitivity with the LOW tier looked up first.
get_market_sensitivity_low_first(market_question, market_category) ==
    IF market_question = <<>>
    THEN [priority |-> 5, level |-> "NORMAL", score |-> 0,
          matched_keywords |-> <<>>]
    ELSE LET text == [i \in DOMAIN (market_question \o Words(market_category))
                         |-> Lower((market_question
                                       \o Words(market_category))[i])]
             critical == first_match(CRITICAL_KEYWORDS, text)
             high == first_match(HIGH_KEYWORDS, text)
             medium_high == first_match(MEDIUM_HIGH_KEYWORDS, text)
             medium == first_match(MEDIUM_KEYWORDS, text)
             low == first_match(LOW_KEYWORDS, text)
         IN  IF low # None
             THEN [priority |-> 5, level |-> "LOW", score |-> 20,
                   matched_keywords |-> <<Val(low)>>]
             ELSE IF critical # None
             THEN [priority |-> 1, level |-> "CRITICAL", score |-> 100,
                   matched_keywords |-> <<Val(critical)>>]
             ELSE IF high # None
             THEN [priority |-> 2, level |-> "HIGH", score |-> 80,
                   matched_keywords |-> <<Val(high)>>]
             ELSE IF medium_high # None
             THEN [priority |-> 3, level |-> "MEDIUM-HIGH", score |-> 60,
                   matched_keywords |-> <<Val(medium_high)>>]
             ELSE IF medium # None
             THEN [priority |-> 4, level |-> "MEDIUM", score |-> 40,
                   matched_keywords |-> <<Val(medium)>>]
             ELSE [priority |-> 5, level |-> "NORMAL", score |-> 0,
                   matched_keywords |-> <<>>]

get_market_sensitivity(market_question, market_category) ==
    IF market_question = <<>>
    THEN [priority |-> 5, level |-> "NORMAL", score |-> 0,
          matched_keywords |-> <<>>]
    ELSE LET text == [i \in DOMAIN (market_question \o Words(market_category))
                         |-> Lower((market_question
                                       \o Words(market_category))[i])]
             critical == first_match(CRITICAL_KEYWORDS, text)
             high == first_match(HIGH_KEYWORDS, text)
             medium_high == first_match(MEDIUM_HIGH_KEYWORDS, text)
             medium == first_match(MEDIUM_KEYWORDS, text)
             low == first_match(LOW_KEYWORDS, text)
         IN  IF critical # None
             THEN [priority |-> 1, level |-> "CRITICAL", score |-> 100,
                   matched_keywords |-> <<Val(critical)>>]
             ELSE IF high # None
             THEN [priority |-> 2, level |-> "HIGH", score |-> 80,
                   matched_keywords |-> <<Val(high)>>]
             ELSE IF medium_high # None
             THEN [priority |-> 3, level |-> "MEDIUM-HIGH", score |-> 60,
                   matched_keywords |-> <<Val(medium_high)>>]
             ELSE IF medium # None
             THEN [priority |-> 4, level |-> "MEDIUM", score |-> 40,
                   matched_keywords |-> <<Val(medium)>>]
             ELSE IF low # None
             THEN [priority |-> 5, level |-> "LOW", score |-> 20,
                   matched_keywords |-> <<Val(low)>>]
             ELSE [priority |-> 5, level |-> "NORMAL", score |-> 0,
                   matched_keywords |-> <<>>]

\* get_required_signals with the first threshold at priority < 2.
get_required_signals_strict(sensitivity) ==
    IF sensitivity.priority < 2 THEN 1
    ELSE IF sensitivity.priority = 3 THEN 2
    ELSE 3

get_required_signals(sensitivity) ==
    IF sensitivity.priority <= 2 THEN 1
    ELSE IF sensitivity.priority = 3 THEN 2
    ELSE 3

----------------------------------------------------------------------------
(* Confidence score: confidence.py                                         *)

SIGNAL_WEIGHTS(s) ==
    CASE s = "fresh_wallet" -> 25
      [] s = "large_trade" -> 30
      [] s = "low_probability_entry" -> 20
      [] s = "high_sensitivity_market" -> 15
      [] s = "clustered_activity" -> 25
      [] s = "test_mode" -> 0
      [] OTHER -> 0

MAX_SCORE == 100

\* compute_confidence without the clamp.
compute_confidence_sum(signals) ==
    SumSeq([i \in DOMAIN signals |-> SIGNAL_WEIGHTS(signals[i])])

compute_confidence(signals) ==
    LET score == SumSeq([i \in DOMAIN signals |-> SIGNAL_WEIGHTS(signals[i])])
    IN  IF score <= MAX_SCORE THEN score ELSE MAX_SCORE

----------------------------------------------------------------------------
(* Wallet graph: wallet_graph.py                                           *)

\* add_funding_source as a plain INSERT into a table without the key.
add_funding_source_insert(tbl, wallet, funding_source, amount, timestamp) ==
    tbl \cup {[wallet |-> wallet, funding_source |-> funding_source,
               amount |-> amount, timestamp |-> timestamp]}

\* INSERT OR REPLACE INTO wallet_funding, keyed by (wallet, funding_source)
add_funding_source(tbl, wallet, funding_source, amount, timestamp) ==
    {e \in tbl : ~(e.wallet = wallet /\ e.funding_source = funding_source)}
        \cup {[wallet |-> wallet, funding_source |-> funding_source,
               amount |-> amount, timestamp |-> timestamp]}

\* COUNT(DISTINCT funding_source) of the self-join >= 1
are_wallets_related(tbl, wallet1, wallet2) ==
    LET shared == {e1.funding_source : e1 \in
                      {e \in tbl : /\ e.wallet = wallet1
                                   /\ \E e2 \in tbl :
                                         /\ e2.wallet = wallet2
                                         /\ e2.funding_source
                                                = e.funding_source}}
    IN  Cardinality(shared) >= 1

\* The elements of the set S in the order of the sequence order: the order
\* in which Python iterates over a dict or set of wallets.
InOrder(order, S) ==
    LET Member(w) == w \in S
    IN  SelectSeq(order, Member)

\* source_to_wallets: funding_source -> the wallets funded by it
source_to_wallets(tbl) ==
    [s \in {e.funding_source : e \in tbl} |->
        {e.wallet : e \in {x \in tbl : x.funding_source = s}}]

\* wallet_connections: wallet -> the wallets sharing a source with it; only
\* wallets of a source with at least 2 wallets become keys.
wallet_connections(tbl) ==
    LET idx == source_to_wallets(tbl)
        shared == {s \in DOMAIN idx : Cardinality(idx[s]) >= 2}
        linked(w) == UNION {idx[s] \ {w} : s \in {x \in shared : w \in idx[x]}}
        keys == UNION {idx[s] : s \in shared}
    IN  [w \in keys |-> linked(w)]

\* dfs visiting the root and its direct connections only.
RECURSIVE dfs_shallow(_, _, _, _)
dfs_shallow(conn, order, todo, visited) ==
    IF Len(todo) = 0 THEN visited
    ELSE LET wallet == Head(todo)
         IN  IF wallet \in visited
             THEN dfs_shallow(conn, order, Tail(todo), visited)
             ELSE visited \cup {wallet} \cup conn[wallet]

\* dfs(wallet, cluster): todo is the stack of pending calls, the result is
\* visited after the call; the cluster is what the call added to visited.
RECURSIVE dfs(_, _, _, _)
dfs(conn, order, todo, visited) ==
    IF Len(todo) = 0 THEN visited
    ELSE LET wallet == Head(todo)
         IN  IF wallet \in visited
             THEN dfs(conn, order, Tail(todo), visited)
             ELSE dfs(conn, order,
                      InOrder(order, conn[wallet]) \o Tail(todo),
                      visited \cup {wallet})

\* The loop over wallet_connections: roots is the keys still to look at.
RECURSIVE cluster_loop(_, _, _, _, _)
cluster_loop(conn, order, roots, visited, clusters) ==
    IF Len(roots) = 0 THEN clusters
    ELSE LET wallet == Head(roots)
         IN  IF wallet \in visited
             THEN cluster_loop(conn, order, Tail(roots), visited, clusters)
             ELSE LET after == dfs(conn, order, <<wallet>>, visited)
                      cluster == after \ visited
                  IN  cluster_loop(conn, order, Tail(roots), after,
                          IF Cardinality(cluster) >= 2
                          THEN Append(clusters, cluster)
                          ELSE clusters)

\* find_shared_funding_clusters(min_shared): the list of clusters.  order is
\* the iteration order of the dicts and sets of wallets; min_shared is not
\* read by the function.
find_shared_funding_clusters(tbl, min_shared, order) ==
    LET conn == wallet_connections(tbl)
    IN  cluster_loop(conn, order, InOrder(order, DOMAIN conn), {}, <<>>)

----------------------------------------------------------------------------
(* Signal engine: analyzer.py                                              *)

\* The seconds of exit_delay_hours summed over the rows ids of positions.
RECURSIVE SumDelay(_, _)
SumDelay(tbl, ids) ==
    IF ids = {} THEN 0
    ELSE LET i == CHOOSE x \in ids : TRUE
         IN  Val(tbl[i].exit_delay_hours)[1] + SumDelay(tbl, ids \ {i})

\* S6, exit_tracking.check_early_exit_pattern.  The row of the query is
\* (AVG(exit_delay_hours), COUNT(*)); the code reads the count as
\* avg_hold_time and the average as exit_count.
check_early_exit_pattern(tbl, wallet, market) ==
    LET closed == {i \in DOMAIN tbl :
                      /\ tbl[i].wallet = wallet /\ tbl[i].market = market
                      /\ tbl[i].status = "closed"}
        count == Cardinality(closed)
        \* AVG(exit_delay_hours) = seconds / (SecondsPerHour * count)
        seconds == SumDelay(tbl, closed)
    IN  IF count = 0 THEN FALSE
        ELSE LET avg_hold_time == count
                 \* exit_count >= 2, exit_count being the average
                 exit_count_ok == seconds >= 2 * SecondsPerHour * count
             IN  avg_hold_time < 6 /\ exit_count_ok

\* S1: wallet is the row load_or_create_wallet returned.
is_fresh(wallet, t) ==
    IF wallet.first_seen = 0 THEN TRUE
    ELSE (t - wallet.first_seen) < FRESH_WALLET_DAYS * SecondsPerDay

\* check_size_anomaly with the factor 10 in place of 3.
check_size_anomaly_tenfold(trade_usd, market_avg_usd) ==
    IF market_avg_usd[1] = 0 THEN FALSE
    ELSE trade_usd * market_avg_usd[2] >= market_avg_usd[1] * 10

\* S2: market_avg_usd is the average as <<sum, count>>.
check_size_anomaly(trade_usd, market_avg_usd) ==
    IF market_avg_usd[1] = 0 THEN FALSE
    ELSE trade_usd * market_avg_usd[2] >= market_avg_usd[1] * 3

\* S3
is_sensitive_market(market_prob, market_category) ==
    LET sensitive_categories == {"POLITICS", "WAR", "GEOPOLITICS"}
        is_tight == market_prob < 15 \/ market_prob > 85
    IN  is_tight /\ market_category \in sensitive_categories

\* S4
check_temporal_clustering(recent_wallet_count) == recent_wallet_count >= 3

\* S5
check_shared_funding(funding, wallet_address, recent_wallets) ==
    IF Len(recent_wallets) = 0 THEN FALSE
    ELSE \E k \in DOMAIN recent_wallets :
             /\ recent_wallets[k] # ""
             /\ recent_wallets[k] # wallet_address
             /\ are_wallets_related(funding, wallet_address,
                                    recent_wallets[k])

\* analyze_trade: funding and tbl are the wallet_funding and positions
\* tables it reads, t is time.time().
analyze_trade(trade, wallet, market_stats, recent_wallets, funding, tbl, t) ==
    LET trade_usd == IF trade.amountUSD # 0 THEN trade.amountUSD ELSE trade.usd
        market_prob == trade.price
        market_category == trade.market_category
        wallet_address == StrOr(trade.trader, trade.wallet)
        market_id == trade.market
        fired ==
            (IF is_fresh(wallet, t) /\ trade_usd >= LARGE_BET_USD
             THEN {"FRESH_WALLET_BIG_BET"} ELSE {})
            \cup (IF check_size_anomaly(trade_usd, market_stats.avg_usd)
                  THEN {"SIZE_ANOMALY"} ELSE {})
            \cup (IF is_sensitive_market(market_prob, market_category)
                  THEN {"TIGHT_SENSITIVE_MARKET"} ELSE {})
            \cup (IF check_temporal_clustering(
                         market_stats.recent_wallet_count)
                  THEN {"TEMPORAL_CLUSTERING"} ELSE {})
            \cup (IF /\ Len(recent_wallets) > 0
                     /\ check_shared_funding(funding, wallet_address,
                                             recent_wallets)
                  THEN {"SHARED_FUNDING_SOURCE"} ELSE {})
            \cup (IF /\ market_id # ""
                     /\ check_early_exit_pattern(tbl, wallet_address,
                                                 market_id)
                  THEN {"EARLY_EXIT_PATTERN"} ELSE {})
        Fired(name) == name \in fired
    IN  SelectSeq(SignalNames, Fired)

----------------------------------------------------------------------------
(* Noise gate: sanity_filter.py.  A check returns <<is_valid, reason>>,    *)
(* the reason being <<text, value>> for the formatted message.             *)

\* market_liquidity is Some(number) when the string parses as a number and
\* None when it does not; trades_tbl is the trades table of the fallback.
check_market_liquidity(market_id, market_data, trades_tbl, t) ==
    LET liquidity ==
            IF market_data.market_liquidity # None
            THEN Val(market_data.market_liquidity)
            ELSE SumUsd({r \in trades_tbl :
                            /\ r.market = market_id
                            /\ r.timestamp >= t - SecondsPerDay})
    IN  IF liquidity < MIN_MARKET_LIQUIDITY
        THEN <<FALSE, Some(<<"Market liquidity too low", liquidity>>)>>
        ELSE <<TRUE, None>>

check_price_jump_single_trade(market_id, current_price, current_trade_usd, recent_trades) ==
    IF Len(recent_trades) < 2 THEN <<TRUE, None>>
    ELSE LET InMarket(x) == x.market = market_id
             same == SelectSeq(recent_trades, InMarket)
             prices_before == [k \in DOMAIN same |-> same[k].price]
             sizes == [k \in DOMAIN recent_trades |-> recent_trades[k].usd]
             n == Len(prices_before)
             \* price_change = |current_price - sum / n|, compared times n
             price_change_n == Abs(current_price * n - SumSeq(prices_before))
         IN  IF n = 0 THEN <<TRUE, None>>
             ELSE IF /\ price_change_n > MAX_PRICE_JUMP_SINGLE_TRADE * n
                     /\ current_trade_usd * Len(recent_trades)
                            > SumSeq(sizes) * 5
             THEN <<FALSE, Some(<<"Price jumped on single large trade",
                                  current_trade_usd>>)>>
             ELSE <<TRUE, None>>

\* The row of wallet_trade_frequency for the wallet, as a set (empty or one).
frequency_row(cache, wallet_address) == {c \in cache : c.wallet = wallet_address}

\* Whether is_high_frequency_trader answers from the cache.
uses_cache(cache, wallet_address, t) ==
    \E c \in frequency_row(cache, wallet_address) :
        c.last_updated # 0 /\ (t - c.last_updated) < SecondsPerHour

\* trades_count as is_high_frequency_trader determines it.
trades_count(cache, trades_tbl, wallet_address, t) ==
    IF uses_cache(cache, wallet_address, t)
    THEN (CHOOSE c \in frequency_row(cache, wallet_address) : TRUE)
             .trades_last_24h
    ELSE Cardinality({r \in trades_tbl :
                         /\ r.wallet = wallet_address
                         /\ r.timestamp >= t - SecondsPerDay})

\* is_high_frequency_trader: <<is_hft, reason>>
is_high_frequency_trader(cache, trades_tbl, wallet_address, t) ==
    LET count == trades_count(cache, trades_tbl, wallet_address, t)
    IN  IF count >= HIGH_FREQ_TRADER_THRESHOLD
        THEN <<TRUE, Some(<<"High-frequency trader", count>>)>>
        ELSE <<FALSE, None>>

\* The wallet_trade_frequency table after is_high_frequency_trader:
\* INSERT OR REPLACE when the count was computed afresh.
frequency_after(cache, trades_tbl, wallet_address, t) ==
    IF uses_cache(cache, wallet_address, t) THEN cache
    ELSE (cache \ frequency_row(cache, wallet_address))
             \cup {[wallet |-> wallet_address,
                    trades_last_24h |->
                        trades_count(cache, trades_tbl, wallet_address, t),
                    last_updated |-> t]}

\* sanity_check: should_alert, filter_reason, and the wallet_trade_frequency
\* table it leaves (the third check runs only when the first two pass).
sanity_check(trade, signals, recent_trades, cache, trades_tbl, t) ==
    LET market_id == trade.market
        wallet_address == StrOr(trade.wallet, trade.trader)
        current_price == trade.price
        current_trade_usd == IF trade.usd # 0 THEN trade.usd ELSE trade.amountUSD
        liquidity == check_market_liquidity(market_id, trade, trades_tbl, t)
        jump == check_price_jump_single_trade(market_id, current_price,
                                              current_trade_usd, recent_trades)
        hft == is_high_frequency_trader(cache, trades_tbl, wallet_address, t)
    IN  IF ~liquidity[1]
        THEN [should_alert |-> FALSE, filter_reason |-> liquidity[2],
              frequency |-> cache]
        ELSE IF ~jump[1]
        THEN [should_alert |-> FALSE, filter_reason |-> jump[2],
              frequency |-> cache]
        ELSE IF hft[1]
        THEN [should_alert |-> FALSE, filter_reason |-> hft[2],
              frequency |-> frequency_after(cache, trades_tbl,
                                            wallet_address, t)]
        ELSE [should_alert |-> TRUE, filter_reason |-> None,
              frequency |-> frequency_after(cache, trades_tbl,
                                            wallet_address, t)]

\* INSERT INTO filtered_alerts (...)
record_filtered_alert(tbl, market, wallet, signals, filter_reason, t) ==
    Append(tbl, [market |-> market, wallet |-> wallet,
                 signals |-> Join("|", signals),
                 filter_reason |-> filter_reason, timestamp |-> t])

----------------------------------------------------------------------------
(* Polling loop: main.py, fetch.py, alerts.py                              *)

\* normalize_trade: the nested market of the feed's record flattened, with
\* the aliases wallet and usd.
normalize_trade(trade) ==
    [id |-> trade.id, trader |-> trade.trader, wallet |-> trade.trader,
     market |-> trade.market.id,
     market_question |-> trade.market.question,
     market_category |-> trade.market.category,
     market_liquidity |-> trade.market.liquidity,
     amountUSD |-> trade.amountUSD, usd |-> trade.amountUSD,
     price |-> trade.price, timestamp |-> trade.timestamp,
     outcome |-> trade.outcome, transactionHash |-> trade.transactionHash]

\* INSERT OR IGNORE INTO trades, keyed by id
store_trade(tbl, trade) ==
    IF \E r \in tbl : r.id = trade.id THEN tbl
    ELSE tbl \cup {[id |-> trade.id,
                    wallet |-> StrOr(trade.wallet, trade.trader),
                    market |-> trade.market,
                    usd |-> IF trade.usd # 0 THEN trade.usd
                            ELSE trade.amountUSD,
                    price |-> trade.price, timestamp |-> trade.timestamp]}

\* load_or_create_wallet: the wallets table it leaves
wallets_after(tbl, trade, t) ==
    LET wallet_address == StrOr(trade.trader, trade.wallet)
    IN  IF \E w \in tbl : w.address = wallet_address THEN tbl
        ELSE tbl \cup {[address |-> wallet_address, first_seen |-> t,
                        total_trades |-> 0, total_volume |-> 0]}

\* load_or_create_wallet: the dictionary it returns
load_or_create_wallet(tbl, trade, t) ==
    LET wallet_address == StrOr(trade.trader, trade.wallet)
        result == {w \in tbl : w.address = wallet_address}
    IN  IF result # {}
        THEN [first_seen |-> (CHOOSE w \in result : TRUE).first_seen]
        ELSE [first_seen |-> t]

determine_trade_direction(trade) ==
    IF trade.price < 50 THEN "entry" ELSE "exit"

get_market_stats(trades_tbl, market_id, all_trades, current_trade) ==
    LET rows == {r \in trades_tbl : r.market = market_id}
        sum == SumUsd(rows)
        avg_usd == IF rows # {} /\ sum # 0
                   THEN <<sum, Cardinality(rows)>> ELSE <<0, 1>>
        cutoff == current_trade.timestamp - (CLUSTER_WINDOW_MIN * 60)
        recent_wallets ==
            {StrOr(all_trades[k].wallet, all_trades[k].trader) :
                k \in {j \in DOMAIN all_trades :
                          /\ all_trades[j].market = market_id
                          /\ all_trades[j].timestamp >= cutoff
                          /\ all_trades[j].outcome = current_trade.outcome}}
    IN  [avg_usd |-> avg_usd,
         recent_wallet_count |->
             IF Len(all_trades) > 0 THEN Cardinality(recent_wallets) ELSE 0]

get_recent_wallets_for_analysis(all_trades, current_trade) ==
    LET cutoff == current_trade.timestamp - (120 * 60)
        Recent(x) == x.timestamp >= cutoff /\ StrOr(x.wallet, x.trader) # ""
        recent == SelectSeq(all_trades, Recent)
    IN  [k \in DOMAIN recent |-> StrOr(recent[k].wallet, recent[k].trader)]

\* The payload send_alert posts.
alert_payload(trade, signals) ==
    [market_question |-> trade.market_question, price |-> trade.price,
     usd |-> trade.usd, wallet |-> trade.wallet, signals |-> signals,
     level |-> get_market_sensitivity(trade.market_question,
                                      trade.market_category).level]
----------------------------------------------------------------------------
(* Inputs of the polling loop                                              *)

\* The markets of the feed, as the feed describes them.
FeedMarkets ==
    [m1 |-> [id |-> "m1", question |-> <<"Will", "a", "Coup", "happen">>,
             category |-> "POLITICS", liquidity |-> Some(20000)],
     m2 |-> [id |-> "m2", question |-> <<"Will", "X", "happen">>,
             category |-> "POLITICS", liquidity |-> Some(20000)],
     m3 |-> [id |-> "m3", question |-> <<"Will", "a", "Coup", "happen">>,
             category |-> "POLITICS", liquidity |-> Some(5000)]]

\* A transactionHash is <<its first 10 characters, the rest>>, or <<>>.
HashA1 == <<"0xaaaaaaaa", "01">>
HashA2 == <<"0xaaaaaaaa", "02">>

\* The trades upstream may publish.  t1 and t2 are two qualifying trades of
\* one wallet on one market at one instant; t3 is the older exit of that
\* wallet; t4 is on a market below the liquidity floor; t5 is by the wallet
\* with 49 stored trades; t6 is a large bet on a market of NORMAL priority.
TradePool ==
    {[id |-> <<"t", 1>>, trader |-> "w1", market |-> FeedMarkets.m1,
      outcome |-> "YES", amountUSD |-> 6000, price |-> 10,
      timestamp |-> StartTime, transactionHash |-> HashA1],
     [id |-> <<"t", 2>>, trader |-> "w1", market |-> FeedMarkets.m1,
      outcome |-> "YES", amountUSD |-> 6000, price |-> 10,
      timestamp |-> StartTime, transactionHash |-> <<>>],
     [id |-> <<"t", 3>>, trader |-> "w1", market |-> FeedMarkets.m1,
      outcome |-> "YES", amountUSD |-> 1000, price |-> 60,
      timestamp |-> StartTime - TimeStep, transactionHash |-> <<>>],
     [id |-> <<"t", 4>>, trader |-> "w2", market |-> FeedMarkets.m3,
      outcome |-> "YES", amountUSD |-> 6000, price |-> 10,
      timestamp |-> StartTime - TimeStep, transactionHash |-> HashA2],
     [id |-> <<"t", 5>>, trader |-> "w3", market |-> FeedMarkets.m1,
      outcome |-> "YES", amountUSD |-> 1000, price |-> 10,
      timestamp |-> StartTime - TimeStep, transactionHash |-> <<>>],
     [id |-> <<"t", 6>>, trader |-> "w2", market |-> FeedMarkets.m2,
      outcome |-> "NO", amountUSD |-> 6000, price |-> 10,
      timestamp |-> StartTime - TimeStep, transactionHash |-> <<>>]}

\* The trades table holds 49 trades of w3 made in the last day, on a market
\* the feed no longer trades, and the wallets table holds w3, first seen
\* more than FRESH_WALLET_DAYS ago.
StoredTrades ==
    {[id |-> <<"h", i>>, wallet |-> "w3", market |-> "m0", usd |-> 100,
      price |-> 50, timestamp |-> StartTime - TimeStep] :
        i \in 1..(HIGH_FREQ_TRADER_THRESHOLD - 1)}

StoredWallets ==
    {[address |-> "w3", first_seen |-> SecondsPerDay,
      total_trades |-> 0, total_volume |-> 0]}

\* The lists a fetch can return for a set of trades: orderBy timestamp,
\* orderDirection desc; the order of trades of one timestamp is upstream's.
RECURSIVE DescOrders(_)
DescOrders(S) ==
    IF S = {} THEN {<<>>}
    ELSE UNION {{<<x>> \o rest : rest \in DescOrders(S \ {x})} :
                   x \in {y \in S : \A z \in S : y.timestamp >= z.timestamp}}

----------------------------------------------------------------------------
(* Inputs of the attribution engine                                        *)

Wallets == {"w1", "w2"}

\* The alerts the polling loop may hand to record_alert.
FiredAlerts ==
    {[market |-> "m1", wallet |-> "w1", fired_timestamp |-> StartTime,
      fired_price |-> 60, signals |-> <<"FRESH_WALLET_BIG_BET">>],
     [market |-> "m2", wallet |-> "w2",
      fired_timestamp |-> StartTime - TimeStep,
      fired_price |-> 10,
      signals |-> <<"FRESH_WALLET_BIG_BET", "TIGHT_SENSITIVE_MARKET">>]}

Pending(tbl) == {a \in DOMAIN tbl : tbl[a].status = "pending"}

\* The answers the polls of one pass may get, one per pending alert, when
\* the markets trade at the prices P.
Polls(tbl, P) == [Pending(tbl) -> {Some(p) : p \in P} \cup {None}]

\* The answers the resolution checks of one pass may get, one per pending
\* alert, when resolved markets report one of R: a report only for a market
\* that is resolved upstream, and possibly none even then (the request
\* fails).
Reports(tbl, R) ==
    {r \in [Pending(tbl) -> {Some(f) : f \in R} \cup {None}] :
        \A a \in Pending(tbl) :
            r[a] # None => tbl[a].market \in resolvedMarkets}

\* The smaller input sets of the liveness specification.
LivePrices == {<<0, 0>>, <<76, 24>>}

LiveReports ==
    {[outcomeTokenPrices |-> <<100, 0>>, resolution |-> "YES"],
     [outcomeTokenPrices |-> <<>>, resolution |-> "NO"]}

----------------------------------------------------------------------------
(* Actions of the attribution engine                                       *)

loopVars == <<trades, wallets, wallet_funding, wallet_trade_frequency,
              filtered_alerts, last_timestamp, sent, narratives, batch,
              cursor, runs, feed, call>>

otherThanAlerts == <<positions, loopVars, now, resolvedMarkets>>

otherThanPositions == <<alerts, loopVars, now, resolvedMarkets>>

RecordAlert ==
    /\ Len(alerts) < MaxAlerts
    /\ \E f \in FiredAlerts :
          alerts' = record_alert(alerts, f.market, f.wallet,
                                 f.fired_timestamp, f.fired_price, f.signals)
    /\ UNCHANGED otherThanAlerts

PeakPass(P) ==
    /\ \E polled \in Polls(alerts, P) :
          alerts' = update_peak_prices(alerts, polled, now)
    /\ UNCHANGED otherThanAlerts

ReviewPass(P, R) ==
    /\ \E polled \in Polls(alerts, P), reports \in Reports(alerts, R) :
          alerts' = review_pending_alerts(alerts, polled, reports, now)
    /\ UNCHANGED otherThanAlerts

\* A review pass in which every check of a market resolved upstream gets
\* its report.
ReviewReported(P, R) ==
    /\ \E polled \in Polls(alerts, P), reports \in Reports(alerts, R) :
          /\ \A a \in Pending(alerts) :
                 alerts[a].market \in resolvedMarkets => reports[a] # None
          /\ alerts' = review_pending_alerts(alerts, polled, reports, now)
    /\ UNCHANGED otherThanAlerts

UpdatePeakPrices == PeakPass(ObservedPrices)

ReviewPendingAlerts == ReviewPass(ObservedPrices, FinalReports)

\* A direct call of resolve_alert, with any id and any arguments.
ResolveAlert ==
    /\ \E a \in 1..MaxAlerts, o \in {"YES", "NO"} :
          alerts' = resolve_alert(alerts, a, o, now,
                                  IF o = "YES" THEN 100 ELSE 0)
    /\ UNCHANGED otherThanAlerts

MarketResolves ==
    /\ \E m \in Markets \ resolvedMarkets :
          resolvedMarkets' = resolvedMarkets \cup {m}
    /\ UNCHANGED <<alerts, positions, loopVars, now>>

\* The clock advances between two runs (a run is short against TimeStep).
Tick ==
    /\ batch = <<>>
    /\ now < StartTime + MaxTime * TimeStep
    /\ now' = now + TimeStep
    /\ UNCHANGED <<alerts, positions, loopVars, resolvedMarkets>>

\* The database of an installation that has seen w3 trade, before the
\* first alert.
Init ==
    /\ alerts = <<>>
    /\ positions = <<>>
    /\ trades = StoredTrades
    /\ wallets = StoredWallets
    /\ wallet_funding = {}
    /\ wallet_trade_frequency = {}
    /\ filtered_alerts = <<>>
    /\ last_timestamp = 0
    /\ sent = <<>>
    /\ narratives = 0
    /\ batch = <<>>
    /\ cursor = 1
    /\ runs = 0
    /\ feed = {}
    /\ now = StartTime
    /\ resolvedMarkets = {}
    /\ call = [fn |-> "none"]

ReviewNext ==
    \/ RecordAlert
    \/ UpdatePeakPrices
    \/ ReviewPendingAlerts
    \/ MarketResolves
    \/ Tick

AttrNext ==
    \/ ReviewNext
    \/ ResolveAlert

\* The attribution engine as a library: every entry point, in any order.
AttrSpec == Init /\ [][AttrNext]_vars

\* The attribution engine as the program drives it: alerts are recorded by
\* the polling loop and resolved only by the periodic review.
ReviewSpec == Init /\ [][ReviewNext]_vars

LivePeakPass == PeakPass(LivePrices)

LiveReviewPass == ReviewPass(LivePrices, LiveReports)

LiveNext ==
    \/ RecordAlert
    \/ LivePeakPass
    \/ LiveReviewPass
    \/ MarketResolves

\* The program of ReviewSpec on the smaller input sets, with the review run
\* periodically and the resolution check of a resolved market not failing
\* for ever.
LiveSpec ==
    /\ Init
    /\ [][LiveNext]_vars
    /\ WF_vars(ReviewReported(LivePrices, LiveReports))

----------------------------------------------------------------------------
(* Actions of the polling loop                                             *)

\* Upstream publishes a trade (between two runs: a trade published during a
\* run is seen by the next fetch at the earliest).
Publish ==
    /\ batch = <<>>
    /\ \E t \in TradePool \ feed : feed' = feed \cup {t}
    /\ UNCHANGED <<call, alerts, positions, now, resolvedMarkets, trades, wallets,
                   wallet_funding, wallet_trade_frequency, filtered_alerts,
                   sent, narratives, last_timestamp, batch, cursor, runs>>

\* run() up to the loop: fetch_trades with since_timestamp None, which
\* stores the newest timestamp fetched, and normalize_trade on every trade.
\* (A fetch that fails or returns nothing ends the run with nothing
\* changed.)
FetchTrades ==
    /\ batch = <<>>
    /\ runs < MaxRuns
    /\ LET since_timestamp ==
               IF last_timestamp = 0 THEN now - SecondsPerHour
               ELSE last_timestamp
           found == {t \in feed : t.timestamp >= since_timestamp}
       IN  /\ found # {}
           /\ \E raw_trades \in DescOrders(found) :
                 LET fetched == SubSeq(raw_trades, 1,
                                       IF Len(raw_trades) < FetchLimit
                                       THEN Len(raw_trades) ELSE FetchLimit)
                 IN  /\ batch' = [k \in DOMAIN fetched |->
                                     normalize_trade(fetched[k])]
                     /\ last_timestamp' =
                            (CHOOSE t \in found :
                                \A u \in found : t.timestamp >= u.timestamp)
                                .timestamp
    /\ cursor' = 1
    /\ runs' = runs + 1
    /\ UNCHANGED <<call, alerts, positions, now, resolvedMarkets, trades, wallets,
                   wallet_funding, wallet_trade_frequency, filtered_alerts,
                   sent, narratives, feed>>

\* One iteration of the loop of run(), for the trade at the cursor.
\* delivered is FALSE when requests.post raises in send_alert: the exception
\* leaves run(), and the rest of the batch is not processed.
ProcessTrade ==
    /\ batch # <<>>
    /\ LET t == batch[cursor]
           wallet == load_or_create_wallet(wallets, t, now)
           wallet_address == StrOr(t.wallet, t.trader)
           market_id == t.market
           trades1 == store_trade(trades, t)
           funding1 ==
               IF t.transactionHash # <<>>
               THEN add_funding_source(wallet_funding, wallet_address,
                                       <<"tx_", t.transactionHash[1]>>,
                                       t.usd, t.timestamp)
               ELSE wallet_funding
           trade_direction == determine_trade_direction(t)
           continue == /\ cursor' = IF cursor < Len(batch) THEN cursor + 1 ELSE 1
                       /\ batch' = IF cursor < Len(batch) THEN batch ELSE <<>>
           abort == cursor' = 1 /\ batch' = <<>>
       IN  \E pos_id \in (IF trade_direction = "entry" THEN {None}
                          ELSE exit_matches(positions, wallet_address,
                                            market_id, t.outcome)),
              delivered \in BOOLEAN :
              LET positions1 ==
                      IF trade_direction = "entry"
                      THEN record_position(positions, wallet_address,
                                           market_id, t.outcome, t.price,
                                           t.usd, t.timestamp)
                      ELSE record_exit(positions, wallet_address, market_id,
                                       t.outcome, t.price, t.timestamp,
                                       pos_id)
                  market_stats == get_market_stats(trades1, market_id, batch, t)
                  recent_wallets == get_recent_wallets_for_analysis(batch, t)
                  signals == analyze_trade(t, wallet, market_stats,
                                           recent_wallets, funding1,
                                           positions1, now)
                  sensitivity == get_market_sensitivity(t.market_question,
                                                        t.market_category)
                  required_signals == get_required_signals(sensitivity)
                  check == sanity_check(t, signals, batch,
                                        wallet_trade_frequency, trades1, now)
              IN  /\ trades' = trades1
                  /\ wallets' = wallets_after(wallets, t, now)
                  /\ wallet_funding' = funding1
                  /\ positions' = positions1
                  /\ IF Len(signals) < required_signals
                     THEN /\ continue
                          /\ UNCHANGED <<wallet_trade_frequency,
                                         filtered_alerts, sent, alerts,
                                         narratives>>
                     ELSE IF ~check.should_alert
                     THEN /\ wallet_trade_frequency' = check.frequency
                          /\ filtered_alerts' =
                                 record_filtered_alert(filtered_alerts,
                                     market_id, wallet_address, signals,
                                     check.filter_reason, now)
                          /\ continue
                          /\ UNCHANGED <<sent, alerts, narratives>>
                     ELSE IF ~delivered
                     THEN /\ wallet_trade_frequency' = check.frequency
                          /\ abort
                          /\ UNCHANGED <<filtered_alerts, sent, alerts,
                                         narratives>>
                     ELSE /\ wallet_trade_frequency' = check.frequency
                          /\ sent' = Append(sent, alert_payload(t, signals))
                          /\ alerts' = record_alert(alerts, market_id,
                                           wallet_address, t.timestamp,
                                           t.price, signals)
                          /\ narratives' = narratives + 1
                          /\ continue
                          /\ UNCHANGED filtered_alerts
    /\ UNCHANGED <<now, resolvedMarkets, last_timestamp, feed, runs, call>>

LoopNext ==
    \/ Publish
    \/ FetchTrades
    \/ ProcessTrade
    \/ Tick

\* The polling loop, run after run, on what upstream publishes.
LoopSpec == Init /\ [][LoopNext]_vars

\* Trades with a field missing, zero or out of range: b1 has no trader, b2
\* is of USD 0, b3 is at price 0 and b4 at price 1.50.
MalformedPool ==
    {[id |-> <<"b", i>>, trader |-> <<"", "v2", "v3", "v4">>[i],
      market |-> FeedMarkets.m1, outcome |-> "YES",
      amountUSD |-> <<6000, 0, 6000, 6000>>[i],
      price |-> <<10, 10, 0, 150>>[i],
      timestamp |-> StartTime - TimeStep,
      transactionHash |-> <<"0xbbbbbbbb", i>>] : i \in 1..4}

PublishMalformed ==
    /\ batch = <<>>
    /\ \E t \in MalformedPool \ feed : feed' = feed \cup {t}
    /\ UNCHANGED <<call, alerts, positions, now, resolvedMarkets, trades, wallets,
                   wallet_funding, wallet_trade_frequency, filtered_alerts,
                   sent, narratives, last_timestamp, batch, cursor, runs>>

\* The polling loop on a feed of malformed trades.
IntakeSpec == Init /\ [][PublishMalformed \/ FetchTrades \/ ProcessTrade]_vars

----------------------------------------------------------------------------
(* Actions of the noise gate                                               *)

\* The loop stores one more trade of w3, made at the time of the clock.
StoreTrade ==
    /\ Cardinality(trades) < Cardinality(StoredTrades) + MaxStored
    /\ trades' = store_trade(trades,
                     [id |-> <<"f", Cardinality(trades)>>, wallet |-> "w3",
                      trader |-> "w3", market |-> "m1", usd |-> 1000,
                      amountUSD |-> 1000, price |-> 10, timestamp |-> now])
    /\ UNCHANGED <<call, alerts, positions, now, resolvedMarkets, wallets,
                   wallet_funding, wallet_trade_frequency, filtered_alerts,
                   sent, narratives, last_timestamp, batch, cursor, runs,
                   feed>>

\* is_high_frequency_trader called for w3.
IsHighFrequencyTrader ==
    /\ call' = [fn |-> "is_high_frequency_trader", trades |-> trades,
                t |-> now,
                result |-> is_high_frequency_trader(wallet_trade_frequency,
                                                    trades, "w3", now)]
    /\ wallet_trade_frequency' =
           frequency_after(wallet_trade_frequency, trades, "w3", now)
    /\ UNCHANGED <<alerts, positions, now, resolvedMarkets, trades, wallets,
                   wallet_funding, filtered_alerts, sent, narratives,
                   last_timestamp, batch, cursor, runs, feed>>

\* Checks of one wallet between which it trades and the clock advances.
FrequencySpec == Init /\ [][StoreTrade \/ IsHighFrequencyTrader \/ Tick]_vars

----------------------------------------------------------------------------
(* Actions of the position tracker                                         *)

EntryTimes == {StartTime - 2 * TimeStep, StartTime - TimeStep, StartTime}

RecordPosition ==
    /\ Len(positions) < MaxPositions
    /\ \E w \in Wallets, ts \in EntryTimes :
          positions' = record_position(positions, w, "m1", "YES", 40, 100, ts)
    /\ UNCHANGED otherThanPositions

RecordExit ==
    /\ \E w \in Wallets, ts \in {StartTime, StartTime + TimeStep} :
          \E pos_id \in exit_matches(positions, w, "m1", "YES") :
              positions' = record_exit(positions, w, "m1", "YES", 60, ts,
                                       pos_id)
    /\ UNCHANGED otherThanPositions

PosNext ==
    \/ RecordPosition
    \/ RecordExit

\* The position tracker as a library: entries and exits in any order.
PosSpec == Init /\ [][PosNext]_vars

----------------------------------------------------------------------------
(* Actions of the wallet graph                                             *)

GraphWallets == {"A", "B", "C", "D", "E"}

FundingSources == {"S1", "S2"}

Amounts == {0, 6000}

\* The sequences without repetition of all elements of S.
RECURSIVE Perms(_)
Perms(S) ==
    IF S = {} THEN {<<>>}
    ELSE UNION {{<<x>> \o rest : rest \in Perms(S \ {x})} : x \in S}

\* The orders in which a run may iterate over wallets.
WalletOrders == Perms(GraphWallets)

AddFundingSource ==
    /\ \E w \in GraphWallets, src \in FundingSources, amount \in Amounts :
          LET tbl == add_funding_source(wallet_funding, w, src, amount, now)
          IN  /\ Cardinality(tbl) <= MaxEdges
              /\ wallet_funding' = tbl
    /\ UNCHANGED <<alerts, positions, trades, wallets, wallet_trade_frequency,
                   filtered_alerts, last_timestamp, sent, narratives, batch,
                   cursor, runs, feed, now, resolvedMarkets, call>>

GraphNext ==
    \/ AddFundingSource

\* The funding-edge store as a library: edges recorded in any order.
GraphSpec == Init /\ [][GraphNext]_vars

----------------------------------------------------------------------------
(* Actions of the market sensitivity functions                             *)

\* The words a question is made of, and the questions: those of at most
\* MaxWords words, and the question of the market m2 of the feed.
Vocabulary ==
    {"Coup", "celebrity", "election", "sanctions", "regulation", "Will", "X"}

Questions ==
    UNION {[1..n -> Vocabulary] : n \in 0..MaxWords}
        \cup {FeedMarkets.m2.question}

Categories == {"", "POLITICS", "WAR", "sanctions"}

Priorities == 1..5

GetMarketSensitivity ==
    /\ \E q \in Questions, c \in Categories :
          call' = [fn |-> "get_market_sensitivity",
                   market_question |-> q, market_category |-> c,
                   result |-> get_market_sensitivity(q, c)]
    /\ UNCHANGED <<alerts, positions, trades, wallets, wallet_funding,
                   wallet_trade_frequency, filtered_alerts, last_timestamp,
                   sent, narratives, batch, cursor, runs, feed, now,
                   resolvedMarkets>>

GetRequiredSignals ==
    /\ \E p \in Priorities :
          call' = [fn |-> "get_required_signals", priority |-> p,
                   result |-> get_required_signals([priority |-> p])]
    /\ UNCHANGED <<alerts, positions, trades, wallets, wallet_funding,
                   wallet_trade_frequency, filtered_alerts, last_timestamp,
                   sent, narratives, batch, cursor, runs, feed, now,
                   resolvedMarkets>>

SensitivityNext ==
    \/ GetMarketSensitivity
    \/ GetRequiredSignals

\* The sensitivity functions called on every input, in any order.
SensitivitySpec == Init /\ [][SensitivityNext]_vars

----------------------------------------------------------------------------
(* Actions of the confidence score                                         *)

ConfidenceSignals ==
    {"fresh_wallet", "large_trade", "low_probability_entry",
     "high_sensitivity_market", "clustered_activity", "test_mode",
     "unknown_signal"}

\* A caller computes the score of the empty list, then of the list with one
\* more signal, up to MaxSignals signals.
ComputeConfidence ==
    /\ \E s \in ConfidenceSignals :
          LET signals == IF call.fn = "compute_confidence"
                         THEN Append(call.signals, s) ELSE <<>>
          IN  /\ Len(signals) <= MaxSignals
              /\ call' = [fn |-> "compute_confidence", signals |-> signals,
                          result |-> compute_confidence(signals)]
    /\ UNCHANGED <<alerts, positions, trades, wallets, wallet_funding,
                   wallet_trade_frequency, filtered_alerts, last_timestamp,
                   sent, narratives, batch, cursor, runs, feed, now,
                   resolvedMarkets>>

ConfidenceSpec == Init /\ [][ComputeConfidence]_vars

----------------------------------------------------------------------------
(* Actions of the signal engine                                            *)

\* The arguments of analyze_trade and the two tables it reads: a trade of
\* w1 on the market "Will X happen"; the wallet row, first seen at the call
\* or 15 minutes less than FRESH_WALLET_DAYS before StartTime; the market
\* statistics; the wallets of the batch; wallet_funding, empty or with w1
\* and w2 funded by S1; positions, empty or with one position of w1 closed
\* after three hours.
AnalyzeInputs ==
    LET linked == add_funding_source(
                      add_funding_source({}, "w1", "S1", 6000, StartTime),
                      "w2", "S1", 6000, StartTime)
        opened == record_position(<<>>, "w1", "m2", "YES", 10, 1000,
                                  StartTime - 3 * SecondsPerHour)
        closed == record_exit(opened, "w1", "m2", "YES", 60, StartTime,
                      CHOOSE id \in exit_matches(opened, "w1", "m2", "YES") :
                          TRUE)
    IN  {[trade |-> [trader |-> "w1", wallet |-> "w1", market |-> "m2",
                     market_question |-> <<"Will", "X", "happen">>,
                     market_category |-> c, amountUSD |-> u, usd |-> u,
                     price |-> p],
          wallet |-> [first_seen |-> f],
          market_stats |-> [avg_usd |-> a, recent_wallet_count |-> n],
          recent_wallets |-> r, funding |-> g, positions |-> e] :
            c \in {"POLITICS", "SPORTS"}, u \in {1000, 6000}, p \in {10, 50},
            f \in {StartTime,
                   StartTime - FRESH_WALLET_DAYS * SecondsPerDay + 900},
            a \in {<<1000, 1>>, <<0, 1>>}, n \in {2, 4},
            r \in {<<>>, <<"w2", "w3", "w4">>}, g \in {{}, linked},
            e \in {<<>>, closed}}

AnalyzeTrade ==
    /\ \E in \in AnalyzeInputs :
          call' = [fn |-> "analyze_trade", in |-> in,
                   result |-> analyze_trade(in.trade, in.wallet,
                                  in.market_stats, in.recent_wallets,
                                  in.funding, in.positions, now)]
    /\ UNCHANGED <<alerts, positions, trades, wallets, wallet_funding,
                   wallet_trade_frequency, filtered_alerts, last_timestamp,
                   sent, narratives, batch, cursor, runs, feed, now,
                   resolvedMarkets>>

\* analyze_trade called on every input, at every time of the clock.
SignalSpec == Init /\ [][AnalyzeTrade \/ Tick]_vars

----------------------------------------------------------------------------
(* Actions of the market statistics                                        *)

\* Five trades of five wallets on the outcome YES of the market m1: at
\* StartTime, 30 and 60 minutes before it, 30 minutes after it, and 150
\* minutes before it.
ClusterPool ==
    {normalize_trade(
         [id |-> <<"x", i>>, trader |-> <<"wa", "wb", "wc", "wd", "we">>[i],
          market |-> FeedMarkets.m1, outcome |-> "YES", amountUSD |-> 1000,
          price |-> 10,
          timestamp |-> StartTime + <<0, -30, -60, 30, -150>>[i] * 60,
          transactionHash |-> <<>>]) : i \in 1..5}

\* run() reaches get_market_stats for the trade at place k of a batch, the
\* trades of earlier batches and the first k trades of this one stored.
GetMarketStats ==
    /\ \E earlier \in SUBSET ClusterPool :
          \E fetched \in (SUBSET (ClusterPool \ earlier)) \ {{}} :
             \E all_trades \in DescOrders(fetched) :
                \E k \in DOMAIN all_trades :
                   LET stored == UNION {store_trade({}, x) :
                                   x \in earlier
                                       \cup {all_trades[j] : j \in 1..k}}
                   IN  call' = [fn |-> "get_market_stats",
                                earlier |-> earlier,
                                all_trades |-> all_trades,
                                current_trade |-> all_trades[k],
                                result |-> get_market_stats(stored,
                                               all_trades[k].market,
                                               all_trades, all_trades[k])]
    /\ UNCHANGED <<alerts, positions, trades, wallets, wallet_funding,
                   wallet_trade_frequency, filtered_alerts, last_timestamp,
                   sent, narratives, batch, cursor, runs, feed, now,
                   resolvedMarkets>>

StatsSpec == Init /\ [][GetMarketStats]_vars

----------------------------------------------------------------------------
(* Actions of the alert log                                                *)

\* The lists of signals a caller may pass to record_alert: up to MaxNames
\* of the first four names, none twice, in any order.
SignalLists ==
    {q \in UNION {[1..n -> {SignalNames[i] : i \in 1..4}] : n \in 1..MaxNames} :
        \A i, j \in DOMAIN q : i # j => q[i] # q[j]}

\* record_alert called with a list of signals in the caller's order.
RecordAlertCall ==
    /\ Len(alerts) < MaxAlerts
    /\ \E signals \in SignalLists :
          alerts' = record_alert(alerts, "m1", "w1", StartTime, 60, signals)
    /\ UNCHANGED otherThanAlerts

AlertLogSpec == Init /\ [][RecordAlertCall]_vars

----------------------------------------------------------------------------
(* Dry run: test_alerts.py, detector.py, db.py                             *)
(* A trade of the dry run has size (shares), price (cents), proxyWallet    *)
(* and title; a missing field is 0 or "".                                  *)

MIN_USD_SIZE == 2500
LOW_PROB_THRESHOLD == 15
HIGH_CONFIDENCE_SCORE == 3

\* db.is_fresh_wallet: no row of the address.
is_fresh_wallet(tbl, wallet) ==
    IF wallet = "" THEN FALSE ELSE ~\E w \in tbl : w.address = wallet

\* db.mark_wallet_seen: INSERT OR IGNORE, then UPDATE of the totals.
mark_wallet_seen(tbl, wallet, usd, timestamp) ==
    IF wallet = "" THEN tbl
    ELSE LET inserted ==
                 IF \E w \in tbl : w.address = wallet THEN tbl
                 ELSE tbl \cup {[address |-> wallet, first_seen |-> timestamp,
                                 total_trades |-> 0, total_volume |-> 0]}
         IN  {IF w.address = wallet
              THEN [w EXCEPT !.total_trades = @ + 1, !.total_volume = @ + usd]
              ELSE w : w \in inserted}

\* The titles of the dry run that hold one of the sensitive_keywords as a
\* substring ("sec" in "second").
SensitiveTitles == {"Election day", "A second term"}

\* detect_insider: the tuple (is_suspicious, signals) it returns, and the
\* wallets table it leaves.  usd_size is size * price, in dollars.
detect_insider(trade, tbl, t) ==
    IF trade.size = 0 \/ trade.price = 0 \/ trade.proxyWallet = ""
    THEN [result |-> <<FALSE, <<>>>>, wallets |-> tbl]
    ELSE LET usd_size == (trade.size * trade.price) \div PriceScale
             signals ==
                 (IF usd_size >= MIN_USD_SIZE
                  THEN <<"large_trade">> ELSE <<>>)
                 \o (IF trade.price <= LOW_PROB_THRESHOLD
                     THEN <<"low_probability_entry">> ELSE <<>>)
                 \o (IF is_fresh_wallet(tbl, trade.proxyWallet)
                     THEN <<"fresh_wallet">> ELSE <<>>)
                 \o (IF trade.title \in SensitiveTitles
                     THEN <<"high_sensitivity_market">> ELSE <<>>)
         IN  [result |-> <<Len(signals) >= HIGH_CONFIDENCE_SCORE, signals>>,
              wallets |-> mark_wallet_seen(tbl, trade.proxyWallet, usd_size, t)]

\* test_alerts: what it prints (the trade an alert is formatted for, or a
\* message) and the wallets table it leaves.  `if detect_insider(t)` tests
\* the returned tuple, and a tuple of two elements is true.
RECURSIVE test_alerts(_, _, _)
test_alerts(fetched, tbl, t) ==
    IF Len(fetched) = 0
    THEN [alert |-> None, message |-> "No insider trades detected",
          wallets |-> tbl]
    ELSE LET detected == detect_insider(Head(fetched), tbl, t)
         IN  IF Len(detected.result) > 0
             THEN [alert |-> Some(Head(fetched)), message |-> "",
                   wallets |-> detected.wallets]
             ELSE test_alerts(Tail(fetched), detected.wallets, t)

\* The trades a dry run may fetch.
DryRunTrades ==
    [size : {0, 30000}, price : {10, 50}, proxyWallet : {"w3", "w9"},
     title : {"Election day", "Rain tomorrow"}, timestamp : {StartTime}]

\* One dry run on a fetched list of at most MaxFetched trades (an empty
\* list prints "No trades fetched" and exits); fetch_trades stores the
\* newest timestamp fetched.
TestAlerts ==
    /\ runs < MaxRuns
    /\ \E n \in 1..MaxFetched :
          \E fetched \in [1..n -> DryRunTrades] :
             LET out == test_alerts(fetched, wallets, now)
             IN  /\ call' = [fn |-> "test_alerts", fetched |-> fetched,
                             wallets |-> wallets, t |-> now,
                             alert |-> out.alert, message |-> out.message]
                 /\ wallets' = out.wallets
                 /\ last_timestamp' =
                        fetched[CHOOSE i \in 1..n : \A j \in 1..n :
                                    fetched[i].timestamp
                                        >= fetched[j].timestamp].timestamp
    /\ runs' = runs + 1
    /\ UNCHANGED <<alerts, positions, now, resolvedMarkets, trades,
                   wallet_funding, wallet_trade_frequency, filtered_alerts,
                   sent, narratives, batch, cursor, feed>>

DryRunSpec == Init /\ [][TestAlerts]_vars

----------------------------------------------------------------------------
(* Claims                                                                  *)

Resolved(a) == alerts[a].status = "resolved"

ResolutionFields(row) ==
    <<row.outcome, row.outcome_timestamp, row.hours_to_outcome,
      row.price_change, row.peak_price_change, row.profit_loss,
      row.is_correct>>

\* C1: once an alert is resolved, no later step (in particular no further
\* resolve_alert call on it) changes its profit_loss or any other
\* resolution field.
C1_ResolvedOnce ==
    [][\A a \in DOMAIN alerts :
          Resolved(a) =>
              ResolutionFields(alerts'[a]) = ResolutionFields(alerts[a])]_vars

SameKey(p, q) ==
    /\ positions[p].wallet = positions[q].wallet
    /\ positions[p].market = positions[q].market
    /\ positions[p].outcome = positions[q].outcome

\* C2: a step that closes a position closes one that had the smallest entry
\* timestamp among the open positions of its (wallet, market, outcome) key,
\* and leaves every other position as it was; so the later entries stay
\* open and successive exits close in ascending entry-time order.
C2_FifoExit ==
    [][\A p \in DOMAIN positions :
          (positions[p].status = "open" /\ positions'[p].status = "closed")
              => /\ \A q \in DOMAIN positions :
                        (SameKey(p, q) /\ positions[q].status = "open")
                            => positions[p].entry_timestamp
                                   <= positions[q].entry_timestamp
                 /\ \A q \in DOMAIN positions \ {p} :
                        positions'[q] = positions[q]]_vars

\* Entries at t1 < t2 < t3 for one key after one exit: t1 closed, t2 and t3
\* open.
C2_Witness ==
    \E p, q, r \in DOMAIN positions :
        /\ SameKey(p, q) /\ SameKey(q, r)
        /\ positions[p].entry_timestamp < positions[q].entry_timestamp
        /\ positions[q].entry_timestamp < positions[r].entry_timestamp
        /\ positions[p].status = "closed"
        /\ positions[q].status = "open"
        /\ positions[r].status = "open"

\* The trade the loop is at, and what the gates say of it in a step of the
\* loop (the tables after the step are those the signals were computed on).
Candidate == batch[cursor]

ProcessStep == batch # <<>> /\ (cursor' # cursor \/ batch' # batch)

CandidateSignals ==
    analyze_trade(Candidate, load_or_create_wallet(wallets, Candidate, now),
                  get_market_stats(trades', Candidate.market, batch, Candidate),
                  get_recent_wallets_for_analysis(batch, Candidate),
                  wallet_funding', positions', now)

SignalGate ==
    Len(CandidateSignals) >=
        get_required_signals(
            get_market_sensitivity(Candidate.market_question,
                                   Candidate.market_category))

NoiseGate ==
    sanity_check(Candidate, CandidateSignals, batch, wallet_trade_frequency,
                 trades', now).should_alert

AlertFired ==
    /\ Len(alerts') = Len(alerts) + 1
    /\ alerts'[Len(alerts')].wallet = Candidate.wallet
    /\ alerts'[Len(alerts')].market = Candidate.market
    /\ alerts'[Len(alerts')].status = "pending"
    /\ Len(sent') = Len(sent) + 1

\* C3: in every iteration of the polling loop an alert is sent and recorded
\* for the trade if and only if its signals number at least the required
\* count of its market's sensitivity and the noise gate passes.
C3_AlertIffGates ==
    [][ProcessStep => (AlertFired <=> (SignalGate /\ NoiseGate))]_vars

\* C4: no two alerts are recorded for one (wallet, market) pair at one
\* instant (which is inside the suppression window whatever its length),
\* and no two notifications are sent for one.
C4_NoDuplicateAlerts ==
    /\ \A a, b \in DOMAIN alerts :
           (/\ a # b
            /\ alerts[a].wallet = alerts[b].wallet
            /\ alerts[a].market = alerts[b].market)
               => alerts[a].fired_timestamp # alerts[b].fired_timestamp
    /\ \A i, j \in DOMAIN sent :
           (i # j /\ sent[i].wallet = sent[j].wallet)
               => sent[i].market_question # sent[j].market_question

\* C5: the stored peak price of a pending alert never decreases, and the
\* peak price and timestamp are written only when no peak is stored or the
\* new peak is strictly higher than the stored one.
C5_PeakOnlyRises ==
    [][\A a \in DOMAIN alerts :
          LET old == alerts[a]
              new == alerts'[a]
          IN  (old.peak_price # new.peak_price
               \/ old.peak_timestamp # new.peak_timestamp)
              => /\ old.status = "pending"
                 /\ new.peak_price # None
                 /\ (old.peak_price = None
                     \/ Val(new.peak_price) > Val(old.peak_price))]_vars

\* C6: every alert is created pending, the status of an alert is always
\* pending or resolved, and a resolved alert stays resolved.
C6_Lifecycle ==
    /\ [](\A a \in DOMAIN alerts : alerts[a].status \in {"pending", "resolved"})
    /\ [][(\A n \in DOMAIN alerts' \ DOMAIN alerts :
                alerts'[n].status = "pending")
           /\ (\A a \in DOMAIN alerts :
                   /\ a \in DOMAIN alerts'
                   /\ Resolved(a) => alerts'[a].status = "resolved")]_vars

C6_Witness ==
    \E a, b \in DOMAIN alerts :
        /\ alerts[a].status = "pending"
        /\ alerts[b].status = "resolved"
        /\ alerts[b].peak_price # None

\* C7: the stored correctness flag of a resolved alert is true iff its
\* stored profit_loss is positive or the absolute value of its stored
\* peak_price_change exceeds 0.15.
C7_CorrectnessRule ==
    \A a \in DOMAIN alerts :
        Resolved(a) =>
            (Val(alerts[a].is_correct) <=>
                (Val(alerts[a].profit_loss) > 0
                 \/ Val(alerts[a].peak_price_change) > 15
                 \/ Val(alerts[a].peak_price_change) < -15))

\* profit_loss = 0 with peak_price_change 0.16 (correct) and with 0.10 (not
\* correct), in one state.
C7_Witness ==
    \E a, b \in DOMAIN alerts :
        /\ Resolved(a) /\ Resolved(b)
        /\ Val(alerts[a].profit_loss) = 0
        /\ Val(alerts[a].peak_price_change) = 16
        /\ Val(alerts[a].is_correct) = TRUE
        /\ Val(alerts[b].profit_loss) = 0
        /\ Val(alerts[b].peak_price_change) = 10
        /\ Val(alerts[b].is_correct) = FALSE

\* C8: a resolved alert stores profit_loss = price_change x 100 and
\* peak_price_change = peak_price - fired_price whenever a peak is recorded
\* (a recorded peak of 0 included), 0 only when none is.
C8_StoredChanges ==
    \A a \in DOMAIN alerts :
        Resolved(a) =>
            /\ Val(alerts[a].profit_loss) * PriceScale
                   = Val(alerts[a].price_change) * NotionalBet
            /\ Val(alerts[a].peak_price_change) =
                   IF alerts[a].peak_price # None
                   THEN Val(alerts[a].peak_price) - alerts[a].fired_price
                   ELSE 0

\* C9: under periodic review a pending alert whose market is resolved
\* upstream eventually becomes resolved; an alert whose market is not
\* resolved stays pending, and a pending alert has no resolution field set.
C9_EventuallyResolved ==
    /\ \A a \in 1..MaxAlerts :
           (a \in DOMAIN alerts /\ alerts[a].market \in resolvedMarkets)
               ~> (a \in DOMAIN alerts /\ Resolved(a))
    /\ [][\A a \in DOMAIN alerts :
             alerts[a].market \notin resolvedMarkets
                 => alerts'[a].status = alerts[a].status]_vars
    /\ [](\A a \in DOMAIN alerts :
             alerts[a].status = "pending"
                 => ResolutionFields(alerts[a])
                        = <<None, None, None, None, None, None, None>>)

C9_Witness ==
    \E a, b \in DOMAIN alerts :
        /\ Resolved(a) /\ alerts[a].market \in resolvedMarkets
        /\ alerts[b].status = "pending"
        /\ alerts[b].market \notin resolvedMarkets
        /\ alerts[b].peak_price # None

ImmutableFields(row) ==
    <<row.market, row.wallet, row.fired_timestamp, row.fired_price, row.signals>>

\* C10: the creation fields of an alert never change, a resolved alert is
\* changed by no periodic pass, and a peak is written to pending alerts only.
C10_Frame ==
    [][\A a \in DOMAIN alerts :
          /\ a \in DOMAIN alerts'
          /\ ImmutableFields(alerts'[a]) = ImmutableFields(alerts[a])
          /\ Resolved(a) => alerts'[a] = alerts[a]]_vars

\* A resolved alert with a recorded peak next to a pending one: the state
\* the next periodic pass starts from.
C10_Witness ==
    /\ \E a \in DOMAIN alerts : Resolved(a) /\ alerts[a].peak_price # None
    /\ \E b \in DOMAIN alerts : alerts[b].status = "pending"
    /\ now > StartTime

\* C11: an iteration of the loop that is not at the last trade of the batch
\* goes on to the next trade of the same batch, whatever happens in it.
C11_BatchContinues ==
    [][(batch # <<>> /\ cursor < Len(batch))
          => (batch' = batch /\ cursor' = cursor + 1)]_vars

AlertRecorded ==
    /\ Len(alerts') = Len(alerts) + 1
    /\ alerts'[Len(alerts')].wallet = Candidate.wallet
    /\ alerts'[Len(alerts')].market = Candidate.market
    /\ alerts'[Len(alerts')].fired_timestamp = Candidate.timestamp
    /\ alerts'[Len(alerts')].status = "pending"

\* C12: every iteration of the loop on a trade that passes the signal gate
\* and the noise gate records a pending alert for it, delivered or not.
C12_FiredAlertRecorded ==
    [][(ProcessStep /\ SignalGate /\ NoiseGate) => AlertRecorded]_vars

FilteredLogged ==
    /\ Len(filtered_alerts') = Len(filtered_alerts) + 1
    /\ filtered_alerts'[Len(filtered_alerts')].wallet = Candidate.wallet
    /\ filtered_alerts'[Len(filtered_alerts')].market = Candidate.market
    /\ filtered_alerts'[Len(filtered_alerts')].filter_reason # None

\* C13: every iteration of the loop on a candidate (a trade with at least
\* one signal) that fails the signal gate or the noise gate appends a row
\* with a reason to the filtered-alert log, sends no notification and
\* records no alert.
C13_GateFailureLogged ==
    [][(/\ ProcessStep
        /\ Len(CandidateSignals) >= 1
        /\ ~(SignalGate /\ NoiseGate))
          => (FilteredLogged /\ sent' = sent /\ alerts' = alerts)]_vars

ClosedPositions(wallet, market) ==
    {i \in DOMAIN positions :
        /\ positions[i].wallet = wallet /\ positions[i].market = market
        /\ positions[i].status = "closed"}

\* C14: check_early_exit_pattern(wallet, market) is true iff the wallet has
\* at least 2 closed positions in the market and their average hold time is
\* below 6 hours (the sum of the holds below 6 hours times their number).
C14_EarlyExitRule ==
    \A w \in Wallets :
        check_early_exit_pattern(positions, w, "m1")
            <=> (/\ Cardinality(ClosedPositions(w, "m1")) >= 2
                 /\ SumDelay(positions, ClosedPositions(w, "m1"))
                        < 6 * SecondsPerHour
                              * Cardinality(ClosedPositions(w, "m1")))

ExitFields(row) ==
    <<row.exit_price, row.exit_timestamp, row.profit_loss,
      row.exit_delay_hours>>

\* C15: a position changes status only from open to closed, and a closed
\* position is never changed again: it stays closed and keeps its exit
\* price, exit timestamp, profit_loss and hold duration.
C15_ClosedOnce ==
    [][\A p \in DOMAIN positions :
          /\ p \in DOMAIN positions'
          /\ positions'[p].status # positions[p].status
                 => (positions[p].status = "open"
                     /\ positions'[p].status = "closed")
          /\ positions[p].status = "closed"
                 => positions'[p] = positions[p]]_vars

\* Two closed positions of one key, the second closed by a later exit than
\* the first.
C15_Witness ==
    \E p, q \in DOMAIN positions :
        /\ SameKey(p, q)
        /\ positions[p].status = "closed" /\ positions[q].status = "closed"
        /\ Val(positions[p].exit_timestamp) < Val(positions[q].exit_timestamp)

\* C16: in every state, record_exit for a key with no open position gets no
\* row (pos_id None) and returns the table unchanged, and record_position
\* for any key returns the table with one new open row appended, every
\* existing row as it was.
C16_ExitNoOpEntryAppends ==
    \A w \in Wallets :
        /\ open_positions(positions, w, "m1", "YES") = {}
               => \A pos_id \in exit_matches(positions, w, "m1", "YES") :
                      /\ pos_id = None
                      /\ record_exit(positions, w, "m1", "YES", 60, now, pos_id)
                             = positions
        /\ LET after == record_position(positions, w, "m1", "YES", 40, 100, now)
           IN  /\ Len(after) = Len(positions) + 1
               /\ SubSeq(after, 1, Len(positions)) = positions
               /\ after[Len(after)].status = "open"
               /\ after[Len(after)].wallet = w

\* One wallet holds two open positions of one key (entered one after the
\* other, not merged) while the other wallet has none open and one closed.
C16_Witness ==
    /\ \E p, q \in DOMAIN positions :
           /\ p # q /\ SameKey(p, q)
           /\ positions[p].status = "open" /\ positions[q].status = "open"
    /\ \E w \in Wallets :
           /\ open_positions(positions, w, "m1", "YES") = {}
           /\ ClosedPositions(w, "m1") # {}

\* The clusters a call returns, as a set.
ClusterSet(min_shared, order) ==
    LET clusters == find_shared_funding_clusters(wallet_funding, min_shared,
                                                 order)
    IN  {clusters[k] : k \in DOMAIN clusters}

\* The wallets with at least one funding edge, and the connected components
\* of the graph linking two of them when they share a funding source.
Funded == {e.wallet : e \in wallet_funding}

SharesSource(u, v) ==
    \E e1, e2 \in wallet_funding :
        /\ e1.wallet = u /\ e2.wallet = v
        /\ e1.funding_source = e2.funding_source

RECURSIVE Grow(_)
Grow(S) ==
    LET more == S \cup {v \in Funded : \E u \in S : SharesSource(u, v)}
    IN  IF more = S THEN S ELSE Grow(more)

Components == {Grow({w}) : w \in Funded}

\* C17: for every threshold and every iteration order, the clusters
\* returned are exactly the connected components with at least that many
\* wallets.
C17_ClustersAtLeastMinSize ==
    \A minSize \in 1..3 :
        \A order \in WalletOrders :
            ClusterSet(minSize, order)
                = {c \in Components : Cardinality(c) >= minSize}

ExampleEdges ==
    {<<"A", "S1">>, <<"B", "S1">>, <<"C", "S2">>, <<"D", "S2">>}

EdgeSet == {<<e.wallet, e.funding_source>> : e \in wallet_funding}

C19_ClustersPartitionFunded ==
    \A order \in WalletOrders :
        /\ \A c, d \in ClusterSet(1, order) : c # d => c \cap d = {}
        /\ UNION ClusterSet(1, order) = Funded

RelatedPairs(tbl) ==
    {<<u, v>> \in GraphWallets \X GraphWallets : are_wallets_related(tbl, u, v)}

\* C20: in every state of the store there is at most one edge per (wallet,
\* source) pair, and a second add_funding_source with the arguments of the
\* first leaves the edges, the related pairs and the clusters (for every
\* iteration order that starts at the wallet of the call) as the first call
\* left them.
C20_IdempotentUpsert ==
    /\ \A e1, e2 \in wallet_funding :
           (e1.wallet = e2.wallet /\ e1.funding_source = e2.funding_source)
               => e1 = e2
    /\ \A w \in GraphWallets, src \in FundingSources, amount \in Amounts :
           LET once == add_funding_source(wallet_funding, w, src, amount, now)
               twice == add_funding_source(once, w, src, amount, now)
           IN  /\ twice = once
               /\ RelatedPairs(twice) = RelatedPairs(once)
               /\ \A order \in {o \in WalletOrders : o[1] = w} :
                      find_shared_funding_clusters(twice, 2, order)
                          = find_shared_funding_clusters(once, 2, order)

\* An edge recorded twice, the second time with another amount, next to an
\* edge of a second wallet to the same source.
C20_Witness ==
    \E e1, e2 \in wallet_funding :
        /\ e1.wallet # e2.wallet
        /\ e1.funding_source = e2.funding_source
        /\ e1.amount # e2.amount

\* C21: in every state of the store, add_funding_source with an empty
\* wallet address or an empty funding-source identifier returns the table
\* unchanged, and with it the related pairs.
C21_MalformedEdgeDropped ==
    \A w \in GraphWallets \cup {""}, src \in FundingSources \cup {""} :
        (w = "" \/ src = "")
            => LET tbl == add_funding_source(wallet_funding, w, src, 6000, now)
               IN  /\ tbl = wallet_funding
                   /\ RelatedPairs(tbl) = RelatedPairs(wallet_funding)

\* The lowercase concatenation of question and category, as words.
Concatenation(question, category) ==
    [i \in DOMAIN (question \o Words(category)) |->
        Lower((question \o Words(category))[i])]

HasMatch(keywords, text) ==
    \E k \in DOMAIN keywords : KeywordIn(keywords[k], text)

\* The level of the highest-priority tier with a keyword in the text,
\* NORMAL when no tier has one.
HighestTier(text) ==
    IF HasMatch(CRITICAL_KEYWORDS, text) THEN "CRITICAL"
    ELSE IF HasMatch(HIGH_KEYWORDS, text) THEN "HIGH"
    ELSE IF HasMatch(MEDIUM_HIGH_KEYWORDS, text) THEN "MEDIUM-HIGH"
    ELSE IF HasMatch(MEDIUM_KEYWORDS, text) THEN "MEDIUM"
    ELSE IF HasMatch(LOW_KEYWORDS, text) THEN "LOW"
    ELSE "NORMAL"

TierPriority(level) ==
    CASE level = "CRITICAL" -> 1
      [] level = "HIGH" -> 2
      [] level = "MEDIUM-HIGH" -> 3
      [] level = "MEDIUM" -> 4
      [] OTHER -> 5

Classified == call.fn = "get_market_sensitivity"

\* C22: for every text the function builds (the question is not empty),
\* the tier returned is the highest-priority tier (critical > high >
\* medium-high > medium > low) with a keyword in the text, NORMAL when no
\* tier has one; a text with both "coup" and "celebrity" is CRITICAL,
\* priority 1.
C22_HighestTierWins ==
    (Classified /\ call.market_question # <<>>) =>
        LET text == Concatenation(call.market_question, call.market_category)
        IN  /\ call.result.level = HighestTier(text)
            /\ call.result.priority = TierPriority(HighestTier(text))
            /\ (KeywordIn(<<"coup">>, text) /\ KeywordIn(<<"celebrity">>, text))
                   => (call.result.level = "CRITICAL"
                       /\ call.result.priority = 1)

\* The text with both "coup" and "celebrity" has been classified.
C22_Witness ==
    /\ Classified
    /\ call.market_question = <<"Coup", "celebrity">>
    /\ HasMatch(LOW_KEYWORDS, Concatenation(call.market_question, ""))
    /\ call.result.level = "CRITICAL"

\* C23: a call whose category alone has a keyword, and whose question has
\* none, returns the tier of the category; and a call returns priority 5,
\* NORMAL, score 0 exactly when the concatenation has no keyword.
C23_CategoryCounts ==
    Classified =>
        LET text == Concatenation(call.market_question, call.market_category)
            question == Concatenation(call.market_question, "")
            category == Concatenation(<<>>, call.market_category)
        IN  /\ (HighestTier(question) = "NORMAL"
                /\ HighestTier(category) # "NORMAL")
                   => call.result.level = HighestTier(category)
            /\ call.result.level = "NORMAL" <=> HighestTier(text) = "NORMAL"
            /\ call.result.level = "NORMAL"
                   => (call.result.priority = 5 /\ call.result.score = 0)

\* C24: get_required_signals is 1, 1, 2, 3, 3 on the priorities 1..5, and
\* does not decrease as the priority number grows.
C24_RequiredSignals ==
    /\ call.fn = "get_required_signals"
           => call.result = <<1, 1, 2, 3, 3>>[call.priority]
    /\ \A p, q \in Priorities :
           p <= q => get_required_signals([priority |-> p])
                         <= get_required_signals([priority |-> q])

\* The call on priority 3, between the two steps of the function.
C24_Witness ==
    /\ call.fn = "get_required_signals"
    /\ call.priority = 3
    /\ call.result = 2

\* The number of places of a list that hold the name s.
Occurrences(signals, s) == Cardinality({i \in DOMAIN signals : signals[i] = s})

\* The weights of a list added up name by name, unknown names adding 0.
WeightTotal(signals) ==
    25 * Occurrences(signals, "fresh_wallet")
        + 30 * Occurrences(signals, "large_trade")
        + 20 * Occurrences(signals, "low_probability_entry")
        + 15 * Occurrences(signals, "high_sensitivity_market")
        + 25 * Occurrences(signals, "clustered_activity")

\* The list holds fresh_wallet, large_trade and clustered_activity once each.
HoldsBaseSet(signals) ==
    /\ Occurrences(signals, "fresh_wallet") = 1
    /\ Occurrences(signals, "large_trade") = 1
    /\ Occurrences(signals, "clustered_activity") = 1

\* C25: compute_confidence is the sum of the weights of the listed signals,
\* unknown names adding 0, clamped at 100, and so lies in 0..100; the set
\* {fresh_wallet, large_trade, clustered_activity} scores 80, and with
\* signals worth 21 or more added to it scores exactly 100.
C25_ConfidenceClamp ==
    call.fn = "compute_confidence" =>
        LET total == WeightTotal(call.signals)
        IN  /\ call.result = IF total > 100 THEN 100 ELSE total
            /\ call.result \in 0..100
            /\ (HoldsBaseSet(call.signals) /\ total = 80) => call.result = 80
            /\ (HoldsBaseSet(call.signals) /\ total - 80 >= 21)
                   => call.result = 100

\* The base set with 35 more weight has been scored 100.
C25_Witness ==
    /\ call.fn = "compute_confidence"
    /\ HoldsBaseSet(call.signals)
    /\ WeightTotal(call.signals) = 115
    /\ call.result = 100

\* The place of a signal name in the fixed order.
Place(name) == CHOOSE i \in DOMAIN SignalNames : SignalNames[i] = name

\* C26: analyze_trade returns names of the fixed order, in that order and
\* without duplicates, and two successive evaluations with identical inputs
\* (trade, wallet row, market statistics, recent wallets, funding edges,
\* positions) return the identical list.
C26_Deterministic ==
    /\ [](call.fn = "analyze_trade" =>
              /\ \A i \in DOMAIN call.result :
                     \E k \in DOMAIN SignalNames :
                         call.result[i] = SignalNames[k]
              /\ \A i, j \in DOMAIN call.result :
                     i < j => Place(call.result[i]) < Place(call.result[j]))
    /\ [][(/\ call.fn = "analyze_trade"
           /\ call'.fn = "analyze_trade"
           /\ call'.in = call.in) => call'.result = call.result]_vars

\* The call of the scenario: a wallet first seen at the call, the market
\* "Will X happen" of category POLITICS at price 0.10, USD 6000, a market
\* average of USD 1000, three other wallets in the window (four with the
\* wallet itself), no shared funding and no closed position.
Scenario ==
    /\ call.fn = "analyze_trade"
    /\ call.in.wallet.first_seen = now
    /\ call.in.trade.market_question = <<"Will", "X", "happen">>
    /\ call.in.trade.market_category = "POLITICS"
    /\ call.in.trade.price = 10
    /\ call.in.trade.usd = 6000
    /\ call.in.market_stats = [avg_usd |-> <<1000, 1>>,
                               recent_wallet_count |-> 4]
    /\ call.in.recent_wallets = <<"w2", "w3", "w4">>
    /\ call.in.funding = {}
    /\ call.in.positions = <<>>

\* C28: in the scenario the signal engine returns exactly
\* FRESH_WALLET_BIG_BET, SIZE_ANOMALY, TIGHT_SENSITIVE_MARKET,
\* TEMPORAL_CLUSTERING, in that order, and the number of signals reaches the
\* number the market's sensitivity requires.
C28_Scenario ==
    Scenario =>
        /\ call.result = <<"FRESH_WALLET_BIG_BET", "SIZE_ANOMALY",
                           "TIGHT_SENSITIVE_MARKET", "TEMPORAL_CLUSTERING">>
        /\ Len(call.result) >= get_required_signals(
               get_market_sensitivity(call.in.trade.market_question,
                                      call.in.trade.market_category))

\* The scenario has been analyzed and four signals returned.
C28_Witness == Scenario /\ Len(call.result) = 4

\* C29: the market with question "Will X happen" and category POLITICS is
\* classified MEDIUM-HIGH or higher (priority <= 3), and its required
\* number of signals is at most 2.
C29_PoliticsMediumHigh ==
    (/\ Classified
     /\ call.market_question = <<"Will", "X", "happen">>
     /\ call.market_category = "POLITICS")
        => /\ call.result.priority <= 3
           /\ call.result.level \in {"CRITICAL", "HIGH", "MEDIUM-HIGH"}
           /\ get_required_signals(call.result) <= 2

\* The wallets that traded the market outcome of the trade cur within the
\* window [cur.timestamp - CLUSTER_WINDOW_MIN minutes, cur.timestamp], among
\* the trades delivered.
WindowWallets(delivered, cur) ==
    {StrOr(x.wallet, x.trader) :
        x \in {y \in delivered :
                  /\ y.market = cur.market
                  /\ y.outcome = cur.outcome
                  /\ y.timestamp >= cur.timestamp - CLUSTER_WINDOW_MIN * 60
                  /\ y.timestamp <= cur.timestamp}}

\* C27: TEMPORAL_CLUSTERING fires for a trade at t exactly when at least 3
\* distinct wallets traded the same market outcome within [t - 120 min, t],
\* among the trades of this batch and of earlier ones.
C27_TrailingWindow ==
    call.fn = "get_market_stats" =>
        LET delivered == call.earlier
                \cup {call.all_trades[j] : j \in DOMAIN call.all_trades}
        IN  check_temporal_clustering(call.result.recent_wallet_count)
                <=> Cardinality(WindowWallets(delivered,
                                              call.current_trade)) >= 3

\* The signal names of a stored key: its parts other than the separator,
\* as signals_str.split("|") gives them.
KeyNames(key) == {key[i] : i \in DOMAIN key} \ {"|"}

\* C30: two alerts recorded with the same set of signal names have the same
\* stored key, whatever the order the names were passed in.
C30_CanonicalKey ==
    \A a, b \in DOMAIN alerts :
        KeyNames(alerts[a].signals) = KeyNames(alerts[b].signals)
            => alerts[a].signals = alerts[b].signals

\* C31: in every state the groups of get_signal_performance cover exactly
\* the resolved alerts: each resolved alert is in exactly one group, that of
\* its stored key; the group counts are the numbers of resolved alerts of
\* each key (so pending alerts are counted in none and the counts sum to the
\* number of resolved alerts); wins is the number of alerts of the group
\* with is_correct true, and wins + losses = count.
C31_AggregationCoversResolved ==
    LET stats == get_signal_performance(alerts)
        resolved == {a \in DOMAIN alerts : Resolved(a)}
        GroupOf(a) == {g \in stats : Join("|", g.signals) = alerts[a].signals}
        Members(g) == {a \in resolved : GroupOf(a) = {g}}
        RECURSIVE Total(_)
        Total(S) == IF S = {} THEN 0
                    ELSE LET g == CHOOSE x \in S : TRUE
                         IN  g.count + Total(S \ {g})
    IN  /\ \A a \in resolved : Cardinality(GroupOf(a)) = 1
        /\ \A g \in stats :
               /\ g.count = Cardinality(Members(g))
               /\ g.wins = Cardinality({a \in Members(g) :
                                           alerts[a].is_correct = Some(TRUE)})
               /\ g.wins + g.losses = g.count
        /\ Total(stats) = Cardinality(resolved)

\* Every alert is resolved, and two of them of one key form a group with
\* one win.
C31_Witness ==
    /\ \E g \in get_signal_performance(alerts) : g.count = 2 /\ g.wins = 1
    /\ \A a \in DOMAIN alerts : Resolved(a)

\* C32: an iteration of the loop on a trade with no wallet address, USD
\* size 0, or a price that is 0 or outside [0, 1] yields no signals, no
\* wallet record, no position, no funding edge and no alert, and the batch
\* continues with the next trade.
C32_MalformedRejected ==
    [][(/\ ProcessStep
        /\ \/ StrOr(Candidate.wallet, Candidate.trader) = ""
           \/ Candidate.usd = 0
           \/ Candidate.price <= 0
           \/ Candidate.price > PriceScale)
          => /\ Len(CandidateSignals) = 0
             /\ wallets' = wallets
             /\ positions' = positions
             /\ wallet_funding' = wallet_funding
             /\ alerts' = alerts /\ sent' = sent
             /\ cursor < Len(batch) => (batch' = batch /\ cursor' = cursor + 1)
       ]_vars

\* C33: an iteration of the loop on a trade whose id is already stored (the
\* feed delivered it to an earlier run) creates no position, closes none
\* and fires no alert.
C33_IngestedOnce ==
    [][(ProcessStep /\ \E r \in trades : r.id = Candidate.id)
          => (positions' = positions /\ alerts' = alerts /\ sent' = sent)]_vars

\* C34: an iteration of the loop on a trade of an address with no wallet
\* record creates the record; on a trade of an address that has one it adds
\* one to the record's total_trades and the trade's USD size to its
\* total_volume; and no iteration deletes a wallet record.
C34_WalletTotals ==
    [][ProcessStep =>
          LET address == StrOr(Candidate.trader, Candidate.wallet)
              before == {w \in wallets : w.address = address}
              after == {w \in wallets' : w.address = address}
          IN  /\ Cardinality(after) = 1
              /\ \A w \in before : \A v \in after :
                     /\ v.first_seen = w.first_seen
                     /\ v.total_trades = w.total_trades + 1
                     /\ v.total_volume = w.total_volume + Candidate.usd
              /\ \A w \in wallets : \E v \in wallets' : v.address = w.address
       ]_vars

\* C35: an alert resolved by review_pending_alerts was resolved at the
\* YES-side final price (price_change + fired_price, the resolution price,
\* is 1.0 for the outcome YES and 0.0 for the outcome NO), so an alert on a
\* market resolved NO has a profit_loss that is not positive.
C35_YesSidePrice ==
    \A a \in DOMAIN alerts :
        Resolved(a) =>
            LET resolution_price ==
                    Val(alerts[a].price_change) + alerts[a].fired_price
            IN  /\ alerts[a].outcome = Some("YES")
                       => resolution_price = PriceScale
                /\ alerts[a].outcome = Some("NO")
                       => (resolution_price = 0
                           /\ Val(alerts[a].profit_loss) <= 0)

\* C36: a check of a wallet with at least HIGH_FREQ_TRADER_THRESHOLD stored
\* trades in the 24 hours before the check answers that it is a
\* high-frequency trader, whatever earlier checks left in the
\* wallet_trade_frequency cache.
C36_FrequentTraderRejected ==
    call.fn = "is_high_frequency_trader" =>
        (Cardinality({r \in call.trades :
                         /\ r.wallet = "w3"
                         /\ r.timestamp >= call.t - SecondsPerDay})
             >= HIGH_FREQ_TRADER_THRESHOLD
            => call.result[1] = TRUE)

\* C37: in every state of the polling loop every closed position has an
\* exit timestamp at or after its entry timestamp.
C37_NonNegativeHold ==
    \A i \in DOMAIN positions :
        positions[i].status = "closed"
            => Val(positions[i].exit_timestamp) >= positions[i].entry_timestamp

\* C38: no step takes a trade out of the reach of the feed cursor: a trade
\* of the feed not yet processed that is within reach (at or after the
\* timestamp the next fetch asks for, or waiting in the batch of the run)
\* is after the step processed or still within reach, so that some run can
\* process it; and last_timestamp never decreases.
C38_NoTradeSkipped ==
    [][LET since == IF last_timestamp = 0 THEN now - SecondsPerHour
                    ELSE last_timestamp
           since1 == IF last_timestamp' = 0 THEN now' - SecondsPerHour
                     ELSE last_timestamp'
           waiting == {batch[k].id : k \in {j \in DOMAIN batch : j >= cursor}}
           waiting1 == {batch'[k].id :
                           k \in {j \in DOMAIN batch' : j >= cursor'}}
       IN  /\ \A t \in feed :
                  (/\ t.timestamp >= since \/ t.id \in waiting
                   /\ ~\E r \in trades : r.id = t.id)
                      => \/ \E r \in trades' : r.id = t.id
                         \/ t.id \in waiting1
                         \/ t.timestamp >= since1
           /\ last_timestamp' >= last_timestamp]_vars

\* C39: a dry run formats an alert only for the first fetched trade that
\* detect_insider judges suspicious (is_suspicious true), and reports "No
\* insider trades detected" exactly when no fetched trade is suspicious.
C39_FirstSuspiciousOnly ==
    call.fn = "test_alerts" =>
        LET RECURSIVE Before(_)
            Before(i) ==
                IF i = 1 THEN call.wallets
                ELSE detect_insider(call.fetched[i - 1], Before(i - 1),
                                    call.t).wallets
            Suspicious(i) ==
                detect_insider(call.fetched[i], Before(i), call.t).result[1]
        IN  /\ \A i \in DOMAIN call.fetched :
                   call.alert = Some(call.fetched[i])
                       => \E k \in DOMAIN call.fetched :
                              /\ call.fetched[k] = call.fetched[i]
                              /\ Suspicious(k)
                              /\ \A j \in 1..(k - 1) : ~Suspicious(j)
            /\ call.message = "No insider trades detected"
                   <=> \A i \in DOMAIN call.fetched : ~Suspicious(i)
            /\ call.alert = None
                   <=> call.message = "No insider trades detected"

====
